---- MODULE Spec2Model ----
(***************************************************************************)
(* Model of the socana alert pipeline: the IMAP ingestion loop             *)
(* (soc_core/app.py), the persistent store (soc_core/database.py) and the  *)
(* windowed dedup/burst engine (Database.should_send_alert).               *)
(*                                                                         *)
(* Times are seconds on an integer clock.  Text values are modelled as     *)
(* tuples that keep the parts the code concatenates.                       *)
(***************************************************************************)
EXTENDS Integers, Sequences, FiniteSets, TLC

(***************************************************************************)
(* Bounds of the model (not program constants).                            *)
(***************************************************************************)
MaxSightings == 3      \* calls of should_send_alert in the dedup specification
MaxGap == 3            \* largest step of the clock between two sightings
MaxWindow == 2         \* largest ANTI_SPAM_WINDOW_SECONDS drawn
MaxThreshold == 4      \* largest ANTI_SPAM_REPEAT_THRESHOLD drawn

NoTime == -1           \* a NULL datetime column (last_alert_at_utc IS NULL)

Fingerprints == {"F", "G"}

MaxUid == 2            \* messages that ever arrive in the mailbox
MaxPolls == 2          \* poll cycles that fetch at least one message
MaxBotOps == 1         \* bot-side store operations (bind, unbind, classify)
MaxCycles == 5         \* iterations of imap_loop in the loop specification
MaxLlmTexts == 2       \* distinct texts the text generation may return
MaxNames == 2          \* name lines in a message body
MaxIntervalLen == 2    \* characters of the configured polling interval

VARIABLES
    \* ---- persistent store (soc_core/database.py)
    dedup,             \* table dedup: fingerprint -> row
    emails,            \* table emails: sequence of rows, id = position
    events,            \* table events: sequence of rows
    assets,            \* table assets: hostname -> type
    asset_recipients,  \* table asset_recipients: set of rows, unique (asset, chat_id)
    telegram_messages, \* table telegram_messages (delivery receipts), in insert order
    \* ---- collaborators
    mail_count,        \* mail source: UIDs 1..mail_count exist in the mailbox
    seen,              \* mail source: UIDs flagged \Seen
    tg_log,            \* notification channel: every send attempt, in order
    clock,             \* datetime.now(tz=UTC) as last read
    \* ---- settings
    window_seconds,    \* settings.anti_spam_window_seconds
    repeat_threshold,  \* settings.anti_spam_repeat_threshold
    \* ---- the ingestion loop (imap_loop / _poll_once)
    pc,                \* position of the loop
    attempt,           \* tenacity attempt number of the current tick
    polls,             \* number of polls that fetched messages so far
    mode,              \* "unseen" or "latest"
    msgs,              \* the fetched batch (UIDs in source order)
    idx,               \* index of the current message in msgs
    uids_to_mark_seen, \* the acknowledgment batch of the current poll
    cur_email_id,      \* emails.id of the current message
    dispatch,          \* DispatchMessage (new path) or the stored text and risk (replay)
    admin_idx,         \* index of the current admin chat
    admin_sent_any,    \* admin_sent_any
    recipients,        \* per-device recipients still to be attempted
    \* ---- logs
    dedupLog,          \* the "Dedup: uid=.. send=.. repeats=.." log, one entry per call
    bot_ops,           \* number of bot-side store operations so far
    \* ---- imap_loop
    cycles,            \* iterations of `while True` started so far
    loop_log,          \* "IMAP poll failed (will continue)": the cycles that logged it
    waits,             \* seconds tenacity has slept between the attempts of the current tick
    \* ---- one call of a function of soc_core/tasks.py or soc_core/models.py
    call_pc,           \* "none", "called", "llm", "sleep" or "returned"
    arg,               \* the arguments of the call
    ret,               \* the value the call returned
    llm_attempt,       \* build_dispatch_message: `attempt` of `for attempt in range(3)`
    llm_calls,         \* build_dispatch_message: outcome of every llm_runner invocation
    llm_sleeps,        \* build_dispatch_message: every asyncio.sleep between invocations
    \* ---- run(): the two long-lived tasks
    run_pc,            \* position of run(): "off" while run() is not part of the specification
    polling,           \* state of polling_task (the notification-channel listener)
    cancel_req,        \* tasks on which run() called Task.cancel()
    done               \* the set `done` returned by asyncio.wait

storeVars == <<emails, events, assets, asset_recipients, telegram_messages>>
sourceVars == <<mail_count, seen, tg_log>>
loopVars == <<pc, attempt, polls, mode, msgs, idx, uids_to_mark_seen, cur_email_id,
              dispatch, admin_idx, admin_sent_any, recipients>>
runVars == <<cycles, loop_log, waits>>
pipeVars == <<storeVars, sourceVars, loopVars, bot_ops, runVars>>
dedupVars == <<dedup, dedupLog, clock, window_seconds, repeat_threshold>>
taskVars == <<run_pc, polling, cancel_req, done>>
fnVars == <<call_pc, arg, ret, llm_attempt, llm_calls, llm_sleeps, taskVars>>
vars == <<dedupVars, pipeVars, fnVars>>

(***************************************************************************)
(* Database.should_send_alert                                              *)
(***************************************************************************)
\* mutant: the first sighting does not stamp last_alert_at_utc
NewDedupRow_NoAlertStamp(now_utc, email_id) ==
    [first_seen_utc |-> now_utc, last_seen_utc |-> now_utc, count |-> 1,
     last_alert_at_utc |-> NoTime, last_email_id |-> email_id]

\* DedupORM(...) created when no row exists
NewDedupRow(now_utc, email_id) ==
    [first_seen_utc |-> now_utc, last_seen_utc |-> now_utc, count |-> 1,
     last_alert_at_utc |-> now_utc, last_email_id |-> email_id]

\* mutant: a gap equal to the window already ends the episode
Within_Strict(row, now_utc, window) == (now_utc - row.last_seen_utc) < window

\* within = (now_utc - row.last_seen_utc) <= timedelta(seconds=window_seconds)
Within(row, now_utc, window) == (now_utc - row.last_seen_utc) <= window

\* mutant: the burst alert is not gated by the time since the last alert
BurstDue_Ungated(row, cnt, now_utc, window, threshold) == cnt >= threshold

\* mutant: the burst alert waits for two windows since the last alert
BurstDue_TwoWindows(row, cnt, now_utc, window, threshold) ==
    /\ cnt >= threshold
    /\ \/ row.last_alert_at_utc = NoTime
       \/ (now_utc - row.last_alert_at_utc) > 2 * window

\* the elif of the burst alert; cnt is row.count after the increment
BurstDue(row, cnt, now_utc, window, threshold) ==
    /\ cnt >= threshold
    /\ \/ row.last_alert_at_utc = NoTime
       \/ (now_utc - row.last_alert_at_utc) > window

\* mutant: one alert per window, whatever the gaps between sightings and the count
SendExisting_AlertGap(row, now_utc, window, threshold) ==
    \/ row.last_alert_at_utc = NoTime
    \/ (now_utc - row.last_alert_at_utc) > window

\* send flag computed for an existing row
SendExisting(row, now_utc, window, threshold) ==
    IF ~Within(row, now_utc, window) THEN TRUE
    ELSE BurstDue(row, row.count + 1, now_utc, window, threshold)

\* mutant: an alert on an existing record does not stamp last_alert_at_utc
UpdatedDedupRow_NoStamp(row, now_utc, window, threshold, email_id) ==
    [first_seen_utc |-> row.first_seen_utc,
     last_seen_utc |-> now_utc,
     count |-> row.count + 1,
     last_alert_at_utc |-> row.last_alert_at_utc,
     last_email_id |-> email_id]

\* mutant: the counter advances only when an alert is emitted
UpdatedDedupRow_CountOnAlert(row, now_utc, window, threshold, email_id) ==
    [first_seen_utc |-> row.first_seen_utc,
     last_seen_utc |-> now_utc,
     count |-> IF SendExisting(row, now_utc, window, threshold)
               THEN row.count + 1 ELSE row.count,
     last_alert_at_utc |-> IF SendExisting(row, now_utc, window, threshold)
                           THEN now_utc ELSE row.last_alert_at_utc,
     last_email_id |-> email_id]

\* the row as committed for an existing record
UpdatedDedupRow(row, now_utc, window, threshold, email_id) ==
    [first_seen_utc |-> row.first_seen_utc,
     last_seen_utc |-> now_utc,
     count |-> row.count + 1,
     last_alert_at_utc |-> IF SendExisting(row, now_utc, window, threshold)
                           THEN now_utc ELSE row.last_alert_at_utc,
     last_email_id |-> email_id]

\* returns the new table and the pair (send, count)
should_send_alert(tbl, fingerprint, now_utc, window, threshold, email_id) ==
    IF fingerprint \notin DOMAIN tbl
    THEN [tbl |-> [f \in (DOMAIN tbl) \cup {fingerprint} |->
                      IF f = fingerprint THEN NewDedupRow(now_utc, email_id) ELSE tbl[f]],
          send |-> TRUE, count |-> 1]
    ELSE [tbl |-> [tbl EXCEPT ![fingerprint] =
                      UpdatedDedupRow(tbl[fingerprint], now_utc, window, threshold, email_id)],
          send |-> SendExisting(tbl[fingerprint], now_utc, window, threshold),
          count |-> tbl[fingerprint].count + 1]

\* one line of the dedup log, with the row found before the call (NoRow if none)
NoRow == [first_seen_utc |-> NoTime, last_seen_utc |-> NoTime, count |-> 0,
          last_alert_at_utc |-> NoTime, last_email_id |-> 0]

LogEntry(tbl, fingerprint, now_utc, email_id, res) ==
    [fingerprint |-> fingerprint, email_id |-> email_id, at |-> now_utc,
     send |-> res.send, repeats |-> res.count,
     prev |-> IF fingerprint \in DOMAIN tbl THEN tbl[fingerprint] ELSE NoRow,
     row |-> res.tbl[fingerprint]]

(***************************************************************************)
(* Values: Python str is a sequence of characters, None is a value apart.  *)
(***************************************************************************)
None == <<"None">>

UpperLetters == <<"A","B","C","D","E","F","G","H","I","J","K","L","M",
                  "N","O","P","Q","R","S","T","U","V","W","X","Y","Z">>
LowerLetters == <<"a","b","c","d","e","f","g","h","i","j","k","l","m",
                  "n","o","p","q","r","s","t","u","v","w","x","y","z">>

LowerChar(c) ==
    IF \E n \in DOMAIN UpperLetters : UpperLetters[n] = c
    THEN LowerLetters[CHOOSE n \in DOMAIN UpperLetters : UpperLetters[n] = c]
    ELSE c

\* str.lower()
lower(s) == [n \in DOMAIN s |-> LowerChar(s[n])]

RECURSIVE lstrip(_)
lstrip(s) == IF s # <<>> /\ Head(s) = " " THEN lstrip(Tail(s)) ELSE s

RECURSIVE rstrip(_)
rstrip(s) == IF s # <<>> /\ s[Len(s)] = " " THEN rstrip(SubSeq(s, 1, Len(s) - 1)) ELSE s

\* str.strip()
strip(s) == rstrip(lstrip(s))

\* mutant: str(x) in place of (x or "")
OrEmpty_Str(x) == IF x = None THEN <<"N","o","n","e">> ELSE x

\* (x or "")
OrEmpty(x) == IF x = None THEN <<>> ELSE x

\* needle in s
Contains(s, needle) ==
    \E n \in 1..(Len(s) - Len(needle) + 1) : SubSeq(s, n, n + Len(needle) - 1) = needle

(***************************************************************************)
(* soc_core/models.py and soc_core/tasks.py                                *)
(***************************************************************************)
\* "|".join(parts)
RECURSIVE JoinBar(_)
JoinBar(parts) ==
    IF Len(parts) = 0 THEN <<>>
    ELSE IF Len(parts) = 1 THEN parts[1]
    ELSE parts[1] \o <<"|">> \o JoinBar(Tail(parts))

\* mutant: the result is compared with its letter case
fingerprint_CaseSensitive(ev) ==
    JoinBar(<<lower(strip(OrEmpty(ev.device))),
              lower(strip(OrEmpty(ev.event_type))),
              lower(strip(OrEmpty(ev.detection_name))),
              lower(strip(OrEmpty(ev.object_path))),
              strip(OrEmpty(ev.result))>>)

\* KasperskyEvent.fingerprint: the five normalised parts joined by "|"; the value
\* is the data that is hashed, SHA-256 being taken as one-to-one
fingerprint(ev) ==
    JoinBar(<<lower(strip(OrEmpty(ev.device))),
              lower(strip(OrEmpty(ev.event_type))),
              lower(strip(OrEmpty(ev.detection_name))),
              lower(strip(OrEmpty(ev.object_path))),
              lower(strip(OrEmpty(ev.result)))>>)

SevCritical == <<"c","r","i","t","i","c","a","l">>
SevHigh == <<"h","i","g","h">>
SevMedium == <<"m","e","d","i","u","m">>
SevModerate == <<"m","o","d","e","r","a","t","e">>
SevLow == <<"l","o","w">>

\* mutant: a string outside the vocabulary ranks as Low
_severity_rank_UnknownIsLow(vendor_severity) ==
    IF vendor_severity = None \/ vendor_severity = <<>> THEN 0
    ELSE LET s == lower(strip(vendor_severity)) IN
         IF s \in {SevCritical, SevHigh} THEN 3
         ELSE IF s \in {SevMedium, SevModerate} THEN 2
         ELSE 1

_severity_rank(vendor_severity) ==
    IF vendor_severity = None \/ vendor_severity = <<>> THEN 0
    ELSE LET s == lower(strip(vendor_severity)) IN
         IF s \in {SevCritical, SevHigh} THEN 3
         ELSE IF s \in {SevMedium, SevModerate} THEN 2
         ELSE IF s \in {SevLow} THEN 1
         ELSE 0

MarkRansomware == <<"r","a","n","s","o","m","w","a","r","e">>
MarkMalware == <<"m","a","l","w","a","r","e">>
MarkExploit == <<"e","x","p","l","o","i","t">>

\* lines 27-29: the markers looked for in the event type and in the detection name
ThreatMarker(et, dn) ==
    \/ \E x \in {MarkRansomware, MarkMalware, MarkExploit} : Contains(et, x)
    \/ \E x \in {MarkRansomware, MarkExploit} : Contains(dn, x)

\* mutant: a server escalates on High and Critical only
ServerEscalates_HighOnly(asset_type, rank) == asset_type = "SERVER" /\ rank >= 3

\* line 38
ServerEscalates(asset_type, rank) == asset_type = "SERVER" /\ rank >= 2

\* mutant: no soft escalation of Medium on an unclassified asset
SoftEscalation_Never(asset_type, rank) == FALSE

\* lines 50 and 59
SoftEscalation(asset_type, rank) == asset_type = "UNCLASSIFIED" /\ rank = 2

\* mutant: the standard scale maps Medium to HIGH
StandardScale_MediumIsHigh(rank) ==
    IF rank >= 2 THEN "HIGH"
    ELSE IF rank = 1 THEN "LOW"
    ELSE "INFO"

\* lines 68-76
StandardScale(rank) ==
    IF rank >= 3 THEN "HIGH"
    ELSE IF rank = 2 THEN "MEDIUM"
    ELSE IF rank = 1 THEN "LOW"
    ELSE "INFO"

\* returns the risk level and the reason of the EnrichedEvent
enrich_with_rules(event, asset_type) ==
    LET et == lower(OrEmpty(event.event_type))
        dn == lower(OrEmpty(event.detection_name))
        sev == _severity_rank(event.vendor_severity)
    IN IF ThreatMarker(et, dn)
       THEN [risk_level |-> "CRITICAL", risk_reason |-> "Threat category escalated to CRITICAL (rules)"]
       ELSE IF ServerEscalates(asset_type, sev)
       THEN [risk_level |-> "HIGH", risk_reason |-> "Critical Asset Involved"]
       ELSE IF asset_type = "UNCLASSIFIED" /\ sev >= 3
       THEN [risk_level |-> "HIGH", risk_reason |-> "Asset is UNCLASSIFIED (needs classification)"]
       ELSE IF SoftEscalation(asset_type, sev)
       THEN [risk_level |-> "HIGH", risk_reason |-> "Soft escalation: UNCLASSIFIED + Medium severity"]
       ELSE [risk_level |-> StandardScale(sev),
             risk_reason |-> IF asset_type = "UNCLASSIFIED"
                             THEN "Asset is UNCLASSIFIED (needs classification)"
                             ELSE "None"]

\* a text: the parts of the rule-based rendering that vary in this model, how
\* often send_dispatch has wrapped them in HTML, which output of the text
\* generation it is (0: none) and the name after "LLM fallback: " (None: no such line)
format_rules_summary(enriched, event, asset_type, repeats) ==
    [html |-> 0,
     risk_level |-> enriched.risk_level,
     device |-> strip(IF event.device = None \/ event.device = <<>>
                      THEN <<"u","n","k","n","o","w","n">> ELSE event.device),
     asset |-> asset_type,
     reason |-> enriched.risk_reason,
     repeats |-> IF repeats > 1 THEN repeats ELSE 0,
     llm |-> 0,
     fallback |-> None]

NoText == [html |-> 0, risk_level |-> "None", device |-> <<>>, asset |-> "None",
           reason |-> "None", repeats |-> 0, llm |-> 0, fallback |-> None]

\* no DispatchMessage / no stored receipt
NoDispatch == [text |-> NoText, email_id |-> 0, risk_level |-> "None"]

\* _RISK_RANK.get(level, default)
RiskRankOr(level, default) ==
    CASE level = "INFO" -> 0
      [] level = "LOW" -> 1
      [] level = "MEDIUM" -> 2
      [] level = "HIGH" -> 3
      [] level = "CRITICAL" -> 4
      [] OTHER -> default

(***************************************************************************)
(* Settings (soc_core/config.py) as fixed for the pipeline                 *)
(***************************************************************************)
telegram_chat_id == 1
telegram_admin_chat_ids == <<1, 2>>
imap_mark_seen == TRUE
Limit == 25

RECURSIVE DedupFrom(_, _)
DedupFrom(xs, out) ==
    IF xs = <<>> THEN out
    ELSE IF \E n \in DOMAIN out : out[n] = Head(xs)
         THEN DedupFrom(Tail(xs), out)
         ELSE DedupFrom(Tail(xs), Append(out, Head(xs)))

_dedup_ints(xs) == DedupFrom(xs, <<>>)

\* admin_chats as built in _poll_once
admin_chats == _dedup_ints(<<telegram_chat_id>> \o telegram_admin_chat_ids)

AdminSet == {admin_chats[n] : n \in DOMAIN admin_chats}

(***************************************************************************)
(* The mail source: the messages that exist and what a fetch returns       *)
(***************************************************************************)
HostA == <<"h","1">>
HostB == <<"H","2">>

EventF == [vendor_severity |-> <<"M","e","d","i","u","m">>, device |-> HostA,
           event_type |-> <<"s","c","a","n">>, detection_name |-> <<"e","i","c","a","r">>,
           object_path |-> None, result |-> <<"o","k">>]
EventG == [vendor_severity |-> <<"L","o","w">>, device |-> HostB,
           event_type |-> <<"s","c","a","n">>, detection_name |-> None,
           object_path |-> None, result |-> <<"o","k">>]

\* the event of EventF reported again with vendor severity Low
EventL == [EventF EXCEPT !.vendor_severity = <<"L","o","w">>]

\* KasperskyEmailParser.parse of the body of message uid as fetched in poll n
parse(uid, n) ==
    [uid |-> uid, raw_text |-> <<uid, n>>,
     event |-> CASE uid % 3 = 0 -> EventG
                 [] uid % 3 = 2 -> EventL
                 [] OTHER -> EventF]

RECURSIVE UidsFrom(_, _, _)
UidsFrom(u, last, flagged) ==
    IF u > last THEN <<>>
    ELSE IF u \in flagged THEN UidsFrom(u + 1, last, flagged)
         ELSE <<u>> \o UidsFrom(u + 1, last, flagged)

\* ImapClient._fetch_from_sync: matching UIDs in mailbox order, the last `limit`
_fetch_from_sync(count, flagged, limit, unseen_only) ==
    LET uids == UidsFrom(1, count, IF unseen_only THEN flagged ELSE {})
    IN IF Len(uids) > limit THEN SubSeq(uids, Len(uids) - limit + 1, Len(uids)) ELSE uids

(***************************************************************************)
(* The persistent store (soc_core/database.py)                             *)
(***************************************************************************)
EmailIdOf(tbl, uid) ==
    IF \E n \in DOMAIN tbl : tbl[n].uid = uid
    THEN CHOOSE n \in DOMAIN tbl : tbl[n].uid = uid
    ELSE 0

\* mutant: an existing row is overwritten with the body just fetched
upsert_email_Overwrite(tbl, uid, raw_text) ==
    IF EmailIdOf(tbl, uid) # 0
    THEN [tbl |-> [tbl EXCEPT ![EmailIdOf(tbl, uid)].raw_text = raw_text],
          id |-> EmailIdOf(tbl, uid), created |-> FALSE]
    ELSE [tbl |-> Append(tbl, [uid |-> uid, raw_text |-> raw_text, telegram_sent |-> FALSE]),
          id |-> Len(tbl) + 1, created |-> TRUE]

\* Database.upsert_email: (table, id, created)
upsert_email(tbl, uid, raw_text) ==
    IF EmailIdOf(tbl, uid) # 0
    THEN [tbl |-> tbl, id |-> EmailIdOf(tbl, uid), created |-> FALSE]
    ELSE [tbl |-> Append(tbl, [uid |-> uid, raw_text |-> raw_text, telegram_sent |-> FALSE]),
          id |-> Len(tbl) + 1, created |-> TRUE]

\* Database.mark_email_telegram_sent
mark_email_telegram_sent(tbl, id) ==
    IF id \in DOMAIN tbl THEN [tbl EXCEPT ![id].telegram_sent = TRUE] ELSE tbl

\* mutant: the row is written as UNCLASSIFIED whether or not it exists
ensure_asset_Reset(tbl, hostname) ==
    IF hostname = None \/ hostname = <<>> \/ strip(hostname) = <<>> THEN tbl
    ELSE [h \in (DOMAIN tbl) \cup {strip(hostname)} |-> "UNCLASSIFIED"]

\* Database.ensure_asset
ensure_asset(tbl, hostname) ==
    IF hostname = None \/ hostname = <<>> \/ strip(hostname) = <<>> THEN tbl
    ELSE IF strip(hostname) \in DOMAIN tbl
    THEN IF tbl[strip(hostname)] \in {"UNCLASSIFIED", "SERVER", "WORKSTATION"} THEN tbl
         ELSE [tbl EXCEPT ![strip(hostname)] = "UNCLASSIFIED"]
    ELSE [h \in (DOMAIN tbl) \cup {strip(hostname)} |->
             IF h = strip(hostname) THEN "UNCLASSIFIED" ELSE tbl[h]]

\* Database.get_asset_type
get_asset_type(tbl, hostname) ==
    IF hostname = None \/ hostname = <<>> \/ strip(hostname) = <<>> THEN "None"
    ELSE IF strip(hostname) \in DOMAIN tbl THEN tbl[strip(hostname)] ELSE "None"

\* Database.set_asset_type_by_id
set_asset_type_by_id(tbl, host, asset_type) ==
    IF host \in DOMAIN tbl THEN [tbl EXCEPT ![host] = asset_type] ELSE tbl

\* Database.insert_event
insert_event(tbl, id, ev) ==
    Append(tbl, [email_id |-> id, device |-> ev.device, fingerprint |-> fingerprint(ev)])

\* Database.upsert_asset_recipient
upsert_asset_recipient(tbl, asset, chat_id, min_risk, enabled) ==
    LET mr == IF min_risk \in {"INFO", "MEDIUM", "HIGH", "CRITICAL"} THEN min_risk ELSE "MEDIUM"
        row == [asset |-> asset, chat_id |-> chat_id, min_risk |-> mr, enabled |-> enabled]
    IN IF \E n \in DOMAIN tbl : tbl[n].asset = asset /\ tbl[n].chat_id = chat_id
       THEN [n \in DOMAIN tbl |->
                IF tbl[n].asset = asset /\ tbl[n].chat_id = chat_id THEN row ELSE tbl[n]]
       ELSE Append(tbl, row)

\* Database.clear_asset_recipients
clear_asset_recipients(tbl, asset) == SelectSeq(tbl, LAMBDA r : r.asset # asset)

\* Database.list_recipients_for_device
list_recipients_for_device(atbl, rtbl, device) ==
    IF device = None \/ device = <<>> \/ strip(device) = <<>> THEN <<>>
    ELSE IF strip(device) \notin DOMAIN atbl THEN <<>>
    ELSE SelectSeq(rtbl, LAMBDA r : r.asset = strip(device))

\* Database.add_telegram_message
add_telegram_message(tbl, id, chat_id, risk_level, text_sent) ==
    Append(tbl, [email_id |-> id, chat_id |-> chat_id,
                 risk_level |-> risk_level, text_sent |-> text_sent])

\* Database.get_latest_telegram_message_for_email: (text_sent, risk_level), or nothing
get_latest_telegram_message_for_email(tbl, id) ==
    IF \E n \in DOMAIN tbl : tbl[n].email_id = id
    THEN LET n == CHOOSE m \in DOMAIN tbl :
                     /\ tbl[m].email_id = id
                     /\ \A j \in DOMAIN tbl : tbl[j].email_id = id => j <= m
         IN [text |-> tbl[n].text_sent, risk_level |-> tbl[n].risk_level, email_id |-> id]
    ELSE NoDispatch

\* mutant: any receipt of the message counts, whatever the address
has_telegram_message_AnyChat(tbl, id, chat_id) ==
    \E n \in DOMAIN tbl : tbl[n].email_id = id

\* mutant: the idempotence guard never finds a receipt
has_telegram_message_Never(tbl, id, chat_id) == FALSE

\* Database.has_telegram_message
has_telegram_message(tbl, id, chat_id) ==
    \E n \in DOMAIN tbl : tbl[n].email_id = id /\ tbl[n].chat_id = chat_id

\* tasks.build_dispatch_message with enable_llm = False
build_dispatch_message(atbl, id, event, repeats) ==
    LET asset_type == get_asset_type(atbl, event.device)
        enriched == enrich_with_rules(event, asset_type)
    IN [text |-> format_rules_summary(enriched, event, asset_type, repeats),
        email_id |-> id, risk_level |-> enriched.risk_level]

(***************************************************************************)
(* soc_core/parser.py: the event extractor on the key/value stream of a    *)
(* message body, and the event_time validator of KasperskyEvent.           *)
(***************************************************************************)
Digits == <<"0","1","2","3","4","5","6","7","8","9">>

\* \w of the regular expressions
IsWordChar(c) ==
    \/ \E n \in DOMAIN LowerLetters : LowerLetters[n] = c \/ UpperLetters[n] = c
    \/ \E n \in DOMAIN Digits : Digits[n] = c
    \/ c = "_"

\* re.search(r"\.(x1|x2|...)\b", low)
ExtSearch(low, exts) ==
    \E x \in exts : \E n \in 1..Len(low) :
        /\ n + Len(x) <= Len(low)
        /\ low[n] = "."
        /\ SubSeq(low, n + 1, n + Len(x)) = x
        /\ (n + Len(x) = Len(low) \/ ~IsWordChar(low[n + Len(x) + 1]))

ScriptExts == {<<"e","x","e">>, <<"d","l","l">>, <<"s","y","s">>, <<"b","a","t">>, <<"p","s","1">>}
ExeExts == {<<"e","x","e">>, <<"d","l","l">>, <<"s","y","s">>}

\* str.startswith
StartsWith(s, p) == Len(s) >= Len(p) /\ SubSeq(s, 1, Len(p)) = p

SigPrefixes ==
    {<<"h","e","u","r",":">>, <<"t","r","o","j","a","n",".">>, <<"t","r","o","j","a","n",":">>, <<"n","o","t","-","a","-","v","i","r","u","s",":">>,
     <<"v","i","r","u","s",".">>, <<"w","o","r","m",".">>, <<"e","x","p","l","o","i","t",".">>}

\* line 126
IsProcess(nn) == ExtSearch(lower(nn), ScriptExts)

\* mutant: only the signature prefixes make a detection name
IsDetection_PrefixOnly(nn) == \E p \in SigPrefixes : StartsWith(lower(nn), p)

\* lines 134-138
IsDetection(nn) ==
    \/ \E p \in SigPrefixes : StartsWith(lower(nn), p)
    \/ Contains(nn, <<":">>) /\ ~ExtSearch(lower(nn), ExeExts)

\* the entry (0: none) each of the two results of _select_process_and_detection
\* is taken from
SelectedEntries(names) ==
    LET procs == {n \in DOMAIN names : IsProcess(strip(names[n]))}
        dets == {n \in DOMAIN names : IsDetection(strip(names[n]))}
        nonexe == {n \in DOMAIN names : ~ExtSearch(lower(names[n]), ExeExts)}
        Least(S) == CHOOSE n \in S : \A m \in S : n <= m
        Greatest(S) == CHOOSE n \in S : \A m \in S : n >= m
        process == IF procs = {} THEN 0 ELSE Least(procs)
        first == IF dets = {} THEN 0 ELSE Least(dets)
        second == IF first = 0 /\ process = 0 /\ names # <<>> THEN Len(names) ELSE first
        third == IF second = 0 /\ names # <<>> /\ nonexe # {} THEN Greatest(nonexe) ELSE second
    IN [process |-> process, detection |-> third]

_select_process_and_detection(names) ==
    LET e == SelectedEntries(names)
    IN [process |-> IF e.process = 0 THEN None ELSE strip(names[e.process]),
        detection |-> IF e.detection = 0 THEN None ELSE strip(names[e.detection])]

\* the text of an event time dateutil can parse, and the datetime it stands for
TimeText == <<"2","0","2","6","-","0","1","-","2","7"," ","0","7",":","1","4">>
TimeValue == 7

\* dateutil.parser.parse: the datetime, or ParserError for a text that is no date
dtparser_parse(s) ==
    IF s = TimeText THEN [raised |-> FALSE, value |-> TimeValue]
    ELSE [raised |-> TRUE, value |-> NoTime]

\* a value handed to the event_time validator: None, a str or a datetime
NoValue == [kind |-> "None", text |-> <<>>, dt |-> NoTime]
StrValue(s) == [kind |-> "str", text |-> s, dt |-> NoTime]
DatetimeValue(d) == [kind |-> "datetime", text |-> <<>>, dt |-> d]

\* KasperskyEvent._parse_event_time_to_utc (mode="before")
_parse_event_time_to_utc(v) ==
    IF v.kind = "None" \/ (v.kind = "str" /\ v.text = <<>>) THEN [raised |-> FALSE, value |-> NoTime]
    ELSE IF v.kind = "datetime" THEN [raised |-> FALSE, value |-> v.dt]
    ELSE dtparser_parse(strip(v.text))

\* _all(stream, ...) and _pick_first(stream, ...) for one key
AllOf(stream, key) ==
    LET at == SelectSeq(stream, LAMBDA kv : kv.key = key)
    IN [n \in DOMAIN at |-> at[n].val]

PickFirst(stream, key) ==
    IF AllOf(stream, key) = <<>> THEN None ELSE Head(AllOf(stream, key))

NoEvent == [process_name |-> None, detection_name |-> None, event_time |-> NoTime]

\* KasperskyEmailParser.parse, lines 190-206, for the fields that depend on the
\* name lines and on the time: the event, or the ValidationError of the model;
\* entries records where the two names were taken from
BuildEvent(stream, date) ==
    LET names == AllOf(stream, "name")
        sel == _select_process_and_detection(names)
        picked == PickFirst(stream, "event time")
        t == _parse_event_time_to_utc(IF picked # None THEN StrValue(picked) ELSE date)
    IN IF t.raised THEN [raised |-> TRUE, event |-> NoEvent, entries |-> SelectedEntries(names)]
       ELSE [raised |-> FALSE,
             event |-> [process_name |-> sel.process, detection_name |-> sel.detection,
                        event_time |-> t.value],
             entries |-> SelectedEntries(names)]

(***************************************************************************)
(* soc_core/config.py: the validator of IMAP_POLL_INTERVAL_SECONDS, and    *)
(* the sleep of imap_loop that uses the validated value.                   *)
(***************************************************************************)
\* the value of a string of decimal digits
RECURSIVE DigitsValue(_)
DigitsValue(s) ==
    IF s = <<>> THEN 0
    ELSE 10 * DigitsValue(SubSeq(s, 1, Len(s) - 1))
         + (CHOOSE d \in 0..9 : Digits[d + 1] = s[Len(s)])

IsDigits(s) == s # <<>> /\ \A n \in DOMAIN s : \E d \in DOMAIN Digits : Digits[d] = s[n]

\* int(v) for a str: surrounding whitespace and one sign are accepted
int_of(v) ==
    LET t == strip(v)
        signed == t # <<>> /\ Head(t) \in {"-", "+"}
        body == IF signed THEN Tail(t) ELSE t
    IN IF ~IsDigits(body) THEN [raised |-> TRUE, value |-> 0]
       ELSE [raised |-> FALSE,
             value |-> IF signed /\ Head(t) = "-" THEN 0 - DigitsValue(body) ELSE DigitsValue(body)]

\* mutant: the configured integer is used as it is
_poll_interval_min_5_NoFloor(v) ==
    IF int_of(v).raised THEN 60 ELSE int_of(v).value

\* Settings._poll_interval_min_5
_poll_interval_min_5(v) ==
    IF int_of(v).raised THEN 60
    ELSE IF int_of(v).value > 5 THEN int_of(v).value ELSE 5

(***************************************************************************)
(* build_dispatch_message with the text generation enabled: the exceptions *)
(* llm_runner may raise, and the loop `for attempt in range(3)`.           *)
(***************************************************************************)
\* an exception: type(e).__name__ and str(e)
LlmErrors ==
    { [name |-> <<"A","P","I","C","o","n","n","e","c","t","i","o","n","E","r","r","o","r">>, msg |-> <<"C","o","n","n","e","c","t","i","o","n"," ","e","r","r","o","r",".">>],
      [name |-> <<"A","P","I","T","i","m","e","o","u","t","E","r","r","o","r">>, msg |-> <<"R","e","q","u","e","s","t"," ","t","i","m","e","d"," ","o","u","t",".">>],
      [name |-> <<"R","a","t","e","L","i","m","i","t","E","r","r","o","r">>, msg |-> <<"R","a","t","e"," ","l","i","m","i","t"," ","r","e","a","c","h","e","d">>],
      [name |-> <<"R","u","n","t","i","m","e","E","r","r","o","r">>, msg |-> <<"T","o","o","l"," ","c","a","l","l"," ","T","i","m","e","d"," ","O","u","t">>],
      [name |-> <<"V","a","l","u","e","E","r","r","o","r">>, msg |-> <<"b","a","d"," ","o","u","t","p","u","t">>] }

\* _is_retryable_llm_error
_is_retryable_llm_error(e) ==
    \/ Contains(e.name, <<"A","P","I","C","o","n","n","e","c","t","i","o","n","E","r","r","o","r">>)
    \/ Contains(e.msg, <<"A","P","I","C","o","n","n","e","c","t","i","o","n","E","r","r","o","r">>)
    \/ Contains(e.name, <<"C","o","n","n","e","c","t","i","o","n","E","r","r","o","r">>)
    \/ Contains(e.name, <<"C","o","n","n","e","c","t","E","r","r","o","r">>)
    \/ Contains(e.name, <<"T","i","m","e","o","u","t">>)
    \/ Contains(e.name, <<"R","e","a","d","T","i","m","e","o","u","t">>)
    \/ Contains(lower(e.msg), <<"t","i","m","e","d"," ","o","u","t">>)

\* mutant: one retry only
LlmMayRetry_Once(e, attempt_no) == _is_retryable_llm_error(e) /\ attempt_no < 1

\* mutant: every exception is retried
LlmMayRetry_AnyError(e, attempt_no) == attempt_no < 2

\* line 152: `_is_retryable_llm_error(e) and attempt < 2`
LlmMayRetry(e, attempt_no) == _is_retryable_llm_error(e) /\ attempt_no < 2

\* the text llm_runner returns on its k-th kind of answer
LlmText(k) == [NoText EXCEPT !.llm = k]

\* format_rules_summary(enriched, repeats) + f"\nLLM fallback: {type(e).__name__}"
FallbackText(rules_text, e) == [rules_text EXCEPT !.fallback = e.name]

\* bot.send_dispatch: the HTML text that is sent
SentText(msg) == [msg.text EXCEPT !.html = @ + 1]

\* mutant: the stored text goes through send_dispatch once more
ReplayText_Rerendered(stored) == SentText(stored)

\* lines 136-141: the stored text is sent as it is, parse_mode HTML
ReplayText(stored) == stored.text

EmptyTable == [f \in {} |-> NoRow]

(***************************************************************************)
(* The ingestion loop: app.imap_loop and app._poll_once                    *)
(***************************************************************************)
MaxAttempts == 5

\* the filter applied to each per-device recipient before it is attempted
\* mutant: the minimum-risk threshold of a recipient is not compared
EligibleRecipients_NoRank(rows, msg_rank) ==
    SelectSeq(rows, LAMBDA r : r.enabled /\ r.chat_id \notin AdminSet)

\* mutant: an admin address bound to the device is not excluded
EligibleRecipients_WithAdmins(rows, msg_rank) ==
    SelectSeq(rows, LAMBDA r :
        /\ r.enabled
        /\ ~(msg_rank < RiskRankOr(r.min_risk, 2)))

EligibleRecipients(rows, msg_rank) ==
    SelectSeq(rows, LAMBDA r :
        /\ r.enabled
        /\ r.chat_id \notin AdminSet
        /\ ~(msg_rank < RiskRankOr(r.min_risk, 2)))

\* the event of the message being processed
CurEvent == parse(msgs[idx], polls).event

\* addresses with an enabled binding for the device of the message being processed
BoundNow ==
    LET rows == list_recipients_for_device(assets, asset_recipients, CurEvent.device)
    IN {rows[n].chat_id : n \in {m \in DOMAIN rows : rows[m].enabled}}

\* one line of the send log; bound is the set of bound addresses at the send
SendEntry(path, id, chat_id, text, ok) ==
    [poll |-> polls, path |-> path, email_id |-> id, chat_id |-> chat_id,
     text |-> text, ok |-> ok, bound |-> BoundNow]

\* the process starts on a store whose tables assets and asset_recipients hold
\* atbl and rtbl; the other tables are empty
PipeInitWith(atbl, rtbl) ==
    /\ emails = <<>>
    /\ events = <<>>
    /\ assets = atbl
    /\ asset_recipients = rtbl
    /\ telegram_messages = <<>>
    /\ mail_count = 0
    /\ seen = {}
    /\ tg_log = <<>>
    /\ pc = "idle"
    /\ attempt = 1
    /\ polls = 0
    /\ mode = "unseen"
    /\ msgs = <<>>
    /\ idx = 1
    /\ uids_to_mark_seen = <<>>
    /\ cur_email_id = 0
    /\ dispatch = NoDispatch
    /\ admin_idx = 1
    /\ admin_sent_any = FALSE
    /\ recipients = <<>>
    /\ bot_ops = 0
    /\ cycles = 0
    /\ loop_log = <<>>
    /\ waits = <<>>

\* Database.init on a new file: every table is empty
PipeInit == PipeInitWith([h \in {} |-> "UNCLASSIFIED"], <<>>)

\* no call of the functions studied on their own is in progress
NoCall ==
    /\ call_pc = "none"
    /\ arg = <<>>
    /\ ret = <<>>
    /\ llm_attempt = 0
    /\ llm_calls = <<>>
    /\ llm_sleeps = <<>>

\* the process with an empty store and the default anti-spam settings
Started ==
    /\ PipeInit
    /\ dedup = EmptyTable
    /\ dedupLog = <<>>
    /\ clock = 0
    /\ window_seconds = 1
    /\ repeat_threshold = 2

\* run() is not part of the specification
NoRun ==
    /\ run_pc = "off"
    /\ polling = "off"
    /\ cancel_req = {}
    /\ done = {}

Init == Started /\ NoCall /\ NoRun

\* imap_loop wakes up and calls _poll_once, whose mode defaults to "unseen"
StartPoll ==
    /\ pc = "idle"
    /\ polls < MaxPolls
    /\ pc' = "fetch"
    /\ attempt' = 1
    /\ mode' = "unseen"
    /\ waits' = <<>>
    /\ UNCHANGED <<dedupVars, storeVars, sourceVars, bot_ops, cycles, loop_log, polls, msgs, idx,
                   uids_to_mark_seen, cur_email_id, dispatch, admin_idx, admin_sent_any, recipients>>
    /\ UNCHANGED fnVars

\* the fetch of _poll_once succeeds; arrived messages came in since the last fetch
Fetch(arrived) ==
    /\ pc = "fetch"
    /\ mail_count + arrived <= MaxUid
    /\ mail_count' = mail_count + arrived
    /\ LET got == _fetch_from_sync(mail_count', seen, Limit, mode = "unseen")
       IN /\ msgs' = got
          /\ IF got = <<>>
             THEN pc' = "idle" /\ polls' = polls
             ELSE pc' = "msg" /\ polls' = polls + 1
    /\ idx' = 1
    /\ uids_to_mark_seen' = <<>>
    /\ UNCHANGED <<dedupVars, storeVars, seen, tg_log, bot_ops, runVars, attempt, mode,
                   cur_email_id, dispatch, admin_idx, admin_sent_any, recipients>>
    /\ UNCHANGED fnVars

\* tenacity wait_exponential(min=WaitMin, max=WaitMax), multiplier 1: the sleep after
\* the failed attempt number n
WaitMin == 1
WaitMax == 30
wait_exponential(attempt_number) ==
    LET result == 2 ^ (attempt_number - 1)
        capped == IF result < WaitMax THEN result ELSE WaitMax
    IN IF capped > WaitMin THEN capped ELSE WaitMin

\* mutant: stop_after_attempt lets one more attempt through
RetryOrGiveUp_OneMore ==
    /\ IF attempt < MaxAttempts + 1
       THEN /\ pc' = "fetch" /\ attempt' = attempt + 1 /\ loop_log' = loop_log
            /\ waits' = Append(waits, wait_exponential(attempt))
       ELSE /\ pc' = "idle" /\ attempt' = attempt /\ loop_log' = Append(loop_log, cycles)
            /\ waits' = waits
    /\ UNCHANGED <<dedupVars, storeVars, sourceVars, bot_ops, cycles, polls, mode, msgs, idx,
                   uids_to_mark_seen, cur_email_id, dispatch, admin_idx, admin_sent_any, recipients>>
    /\ UNCHANGED fnVars

\* mutant: the exception that tenacity reraises is not caught by imap_loop
RetryOrGiveUp_Propagates ==
    /\ IF attempt < MaxAttempts
       THEN /\ pc' = "fetch" /\ attempt' = attempt + 1 /\ loop_log' = loop_log
            /\ waits' = Append(waits, wait_exponential(attempt))
       ELSE /\ pc' = "stopped" /\ attempt' = attempt /\ loop_log' = Append(loop_log, cycles)
            /\ waits' = waits
    /\ UNCHANGED <<dedupVars, storeVars, sourceVars, bot_ops, cycles, polls, mode, msgs, idx,
                   uids_to_mark_seen, cur_email_id, dispatch, admin_idx, admin_sent_any, recipients>>
    /\ UNCHANGED fnVars

\* an exception leaves _poll_once: tenacity retries up to MaxAttempts, then reraises;
\* imap_loop catches it, logs "IMAP poll failed (will continue)" and sleeps
RetryOrGiveUp ==
    /\ IF attempt < MaxAttempts
       THEN /\ pc' = "fetch" /\ attempt' = attempt + 1 /\ loop_log' = loop_log
            /\ waits' = Append(waits, wait_exponential(attempt))
       ELSE /\ pc' = "idle" /\ attempt' = attempt /\ loop_log' = Append(loop_log, cycles)
            /\ waits' = waits
    /\ UNCHANGED <<dedupVars, storeVars, sourceVars, bot_ops, cycles, polls, mode, msgs, idx,
                   uids_to_mark_seen, cur_email_id, dispatch, admin_idx, admin_sent_any, recipients>>
    /\ UNCHANGED fnVars

\* mutant: the loop over the batch stops after the message in hand
Advance_AckEarly ==
    /\ idx' = idx + 1
    /\ pc' = "ack"

\* the loop goes on to the next message of the batch (`continue`, or the end of the body)
Advance ==
    /\ idx' = idx + 1
    /\ pc' = IF idx < Len(msgs) THEN "msg" ELSE "ack"

\* the duplicate-UID branch of the loop body up to the recipient loop (lines 92-124)
ReplayBegin(uid, parsed, up) ==
    /\ emails' = up.tbl
    /\ uids_to_mark_seen' = IF imap_mark_seen THEN Append(uids_to_mark_seen, uid)
                            ELSE uids_to_mark_seen
    /\ cur_email_id' = up.id
    /\ LET stored == get_latest_telegram_message_for_email(telegram_messages, up.id)
       IN IF admin_chats = <<>> \/ stored = NoDispatch
          THEN /\ Advance
               /\ UNCHANGED <<dispatch, recipients>>
          ELSE LET rows == list_recipients_for_device(assets, asset_recipients,
                                                      parsed.event.device)
                   todo == EligibleRecipients(rows, RiskRankOr(stored.risk_level, 0))
               IN /\ dispatch' = stored
                  /\ recipients' = todo
                  /\ IF todo = <<>>
                     THEN Advance
                     ELSE pc' = "replay" /\ idx' = idx
    /\ UNCHANGED <<dedupVars, events, assets, asset_recipients, telegram_messages,
                   sourceVars, bot_ops, runVars, attempt, polls, mode, msgs,
                   admin_idx, admin_sent_any>>

\* the new-message branch up to the admin fan-out (lines 163-302)
NewBegin(uid, parsed, up, now) ==
    LET res == should_send_alert(dedup, fingerprint(parsed.event), now, window_seconds,
                                 repeat_threshold, up.id)
        assets1 == ensure_asset(assets, parsed.event.device)
    IN /\ emails' = up.tbl
       /\ cur_email_id' = up.id
       /\ assets' = assets1
       /\ events' = insert_event(events, up.id, parsed.event)
       /\ clock' = now
       /\ dedup' = res.tbl
       /\ dedupLog' = Append(dedupLog,
                             LogEntry(dedup, fingerprint(parsed.event), now, up.id, res))
       /\ IF ~res.send
          THEN /\ uids_to_mark_seen' = IF imap_mark_seen THEN Append(uids_to_mark_seen, uid)
                                       ELSE uids_to_mark_seen
               /\ Advance
               /\ UNCHANGED <<dispatch, admin_idx, admin_sent_any>>
          ELSE /\ dispatch' = build_dispatch_message(assets1, up.id, parsed.event, res.count)
               /\ IF admin_chats = <<>>
                  THEN /\ uids_to_mark_seen' = IF imap_mark_seen
                                               THEN Append(uids_to_mark_seen, uid)
                                               ELSE uids_to_mark_seen
                       /\ Advance
                       /\ UNCHANGED <<admin_idx, admin_sent_any>>
                  ELSE /\ pc' = "admins" /\ idx' = idx
                       /\ admin_idx' = 1
                       /\ admin_sent_any' = FALSE
                       /\ UNCHANGED uids_to_mark_seen
       /\ UNCHANGED <<asset_recipients, telegram_messages, sourceVars, bot_ops, runVars,
                      window_seconds, repeat_threshold, attempt, polls, mode, msgs,
                      recipients>>

\* one iteration of `for m in msgs` up to its first send; dt is the time since the
\* clock was last read
Ingest(dt) ==
    /\ pc = "msg"
    /\ LET uid == msgs[idx]
           parsed == parse(uid, polls)
           up == upsert_email(emails, uid, parsed.raw_text)
       IN IF ~up.created
          THEN dt = 0 /\ ReplayBegin(uid, parsed, up)
          ELSE NewBegin(uid, parsed, up, clock + dt)
    /\ UNCHANGED fnVars

\* lines 380-382: the message is put in the acknowledgment batch
MarkAndAdvance ==
    /\ uids_to_mark_seen' = IF imap_mark_seen THEN Append(uids_to_mark_seen, msgs[idx])
                            ELSE uids_to_mark_seen
    /\ Advance

\* mutant: a message whose admin sends all failed is acknowledged all the same
HardFail_Marks ==
    /\ MarkAndAdvance
    /\ UNCHANGED <<emails, recipients>>

\* mutant: the per-host recipients are tried although no admin send succeeded
HardFail_ToOwners ==
    LET rows == list_recipients_for_device(assets, asset_recipients, CurEvent.device)
        todo == EligibleRecipients(rows, RiskRankOr(dispatch.risk_level, 0))
    IN /\ recipients' = todo
       /\ IF todo = <<>> THEN Advance ELSE pc' = "owners" /\ idx' = idx
       /\ UNCHANGED <<emails, uids_to_mark_seen>>

\* lines 326-327 and 368-373: RuntimeError when no admin send succeeded, caught;
\* `continue` without putting the UID in the acknowledgment batch
HardFail ==
    /\ Advance
    /\ UNCHANGED <<emails, recipients, uids_to_mark_seen>>

\* one iteration of `for ac in admin_chats` (lines 305-324) and, after the last
\* one, lines 326-338
AdminSend(ok) ==
    /\ pc = "admins"
    /\ LET ac == admin_chats[admin_idx]
           text == SentText(dispatch)
           any == admin_sent_any \/ ok
       IN /\ tg_log' = Append(tg_log, SendEntry("admin", cur_email_id, ac, text, ok))
          /\ telegram_messages' =
                IF ok THEN add_telegram_message(telegram_messages, cur_email_id, ac,
                                                dispatch.risk_level, text)
                ELSE telegram_messages
          /\ admin_sent_any' = any
          /\ IF admin_idx < Len(admin_chats)
             THEN /\ admin_idx' = admin_idx + 1
                  /\ UNCHANGED <<pc, idx, emails, recipients, uids_to_mark_seen>>
             ELSE /\ admin_idx' = admin_idx
                  /\ IF ~any
                     THEN HardFail
                     ELSE LET rows == list_recipients_for_device(assets, asset_recipients,
                                                                 CurEvent.device)
                              todo == EligibleRecipients(rows,
                                          RiskRankOr(dispatch.risk_level, 0))
                          IN /\ emails' = mark_email_telegram_sent(emails, cur_email_id)
                             /\ recipients' = todo
                             /\ IF todo = <<>>
                                THEN MarkAndAdvance
                                ELSE /\ pc' = "owners" /\ idx' = idx
                                     /\ UNCHANGED uids_to_mark_seen
    /\ UNCHANGED <<dedupVars, events, assets, asset_recipients, mail_count, seen, bot_ops, runVars,
                   attempt, polls, mode, msgs, cur_email_id, dispatch>>
    /\ UNCHANGED fnVars

\* mutant: a failed send to a recipient ends the message like a failed admin
\* fan-out: the remaining recipients are dropped and the UID is not acknowledged
OwnerLoopStep_AbortOnFail(ok) ==
    IF ok
    THEN /\ recipients' = Tail(recipients)
         /\ IF Tail(recipients) = <<>>
            THEN MarkAndAdvance
            ELSE UNCHANGED <<pc, idx, uids_to_mark_seen>>
    ELSE /\ recipients' = <<>>
         /\ Advance
         /\ UNCHANGED uids_to_mark_seen

\* lines 339-382: the per-recipient try/except swallows a failed send; the loop
\* goes on with the next recipient and, after the last one, the UID is queued
\* for acknowledgment
OwnerLoopStep(ok) ==
    /\ recipients' = Tail(recipients)
    /\ IF Tail(recipients) = <<>>
       THEN MarkAndAdvance
       ELSE UNCHANGED <<pc, idx, uids_to_mark_seen>>

\* one iteration of the per-host recipient loop of the new path (lines 339-367)
OwnerSend(ok) ==
    /\ pc = "owners"
    /\ LET r == Head(recipients)
           text == SentText(dispatch)
       IN /\ tg_log' = Append(tg_log, SendEntry("owner", cur_email_id, r.chat_id, text, ok))
          /\ telegram_messages' =
                IF ok THEN add_telegram_message(telegram_messages, cur_email_id, r.chat_id,
                                                dispatch.risk_level, text)
                ELSE telegram_messages
    /\ OwnerLoopStep(ok)
    /\ UNCHANGED <<dedupVars, emails, events, assets, asset_recipients, mail_count, seen,
                   bot_ops, runVars, attempt, polls, mode, msgs, cur_email_id, dispatch, admin_idx,
                   admin_sent_any>>
    /\ UNCHANGED fnVars

\* one iteration of the recipient loop of the replay path (lines 125-155)
ReplaySend(ok) ==
    /\ pc = "replay"
    /\ LET r == Head(recipients)
       IN IF has_telegram_message(telegram_messages, cur_email_id, r.chat_id)
          THEN UNCHANGED <<tg_log, telegram_messages>>
          ELSE /\ tg_log' = Append(tg_log, SendEntry("replay", cur_email_id, r.chat_id,
                                                     ReplayText(dispatch), ok))
               /\ telegram_messages' =
                     IF ok THEN add_telegram_message(telegram_messages, cur_email_id, r.chat_id,
                                                     dispatch.risk_level, ReplayText(dispatch))
                     ELSE telegram_messages
    /\ recipients' = Tail(recipients)
    /\ IF Tail(recipients) = <<>>
       THEN Advance
       ELSE UNCHANGED <<pc, idx>>
    /\ UNCHANGED <<dedupVars, emails, events, assets, asset_recipients, mail_count, seen,
                   bot_ops, runVars, attempt, polls, mode, msgs, uids_to_mark_seen, cur_email_id,
                   dispatch, admin_idx, admin_sent_any>>
    /\ UNCHANGED fnVars

\* lines 384-388: the batch is acknowledged and _poll_once returns
Ack ==
    /\ pc = "ack"
    /\ seen' = IF imap_mark_seen /\ uids_to_mark_seen # <<>>
               THEN seen \cup {uids_to_mark_seen[n] : n \in DOMAIN uids_to_mark_seen}
               ELSE seen
    /\ pc' = "idle"
    /\ UNCHANGED <<dedupVars, storeVars, mail_count, tg_log, bot_ops, runVars, attempt, polls, mode,
                   msgs, idx, uids_to_mark_seen, cur_email_id, dispatch, admin_idx, admin_sent_any,
                   recipients>>
    /\ UNCHANGED fnVars

\* the IMAP connection of mark_seen_many fails
AckFail ==
    /\ pc = "ack"
    /\ polls < MaxPolls
    /\ imap_mark_seen /\ uids_to_mark_seen # <<>>
    /\ RetryOrGiveUp

(***************************************************************************)
(* Bot-side operations on the same store (soc_core/bot.py)                 *)
(***************************************************************************)
Hosts == {strip(parse(u, 0).event.device) : u \in 1..MaxUid}
OwnerChats == {2, 3}
RequestedRisks == {"LOW", "HIGH"}

\* /bind HOST USER_ID MIN_RISK
bind_owner(host, chat_id, min_risk) ==
    /\ bot_ops < MaxBotOps
    /\ bot_ops' = bot_ops + 1
    /\ assets' = ensure_asset(assets, host)
    /\ asset_recipients' = upsert_asset_recipient(asset_recipients, host, chat_id,
                                                  min_risk, TRUE)
    /\ UNCHANGED <<dedupVars, runVars, emails, events, telegram_messages, sourceVars, loopVars>>
    /\ UNCHANGED fnVars

\* /unbind HOST
unbind_owner(host) ==
    /\ bot_ops < MaxBotOps
    /\ host \in DOMAIN assets
    /\ bot_ops' = bot_ops + 1
    /\ asset_recipients' = clear_asset_recipients(asset_recipients, host)
    /\ UNCHANGED <<dedupVars, runVars, emails, events, assets, telegram_messages, sourceVars,
                   loopVars>>
    /\ UNCHANGED fnVars

\* the asset:set callback; UNCLASSIFIED cannot be set from the UI
asset_set_cb(host, asset_type) ==
    /\ bot_ops < MaxBotOps
    /\ host \in DOMAIN assets
    /\ bot_ops' = bot_ops + 1
    /\ assets' = set_asset_type_by_id(assets, host, asset_type)
    /\ UNCHANGED <<dedupVars, runVars, emails, events, asset_recipients, telegram_messages,
                   sourceVars, loopVars>>
    /\ UNCHANGED fnVars

BotNext ==
    \/ \E h \in Hosts, c \in OwnerChats, r \in RequestedRisks : bind_owner(h, c, r)
    \/ \E h \in Hosts : unbind_owner(h)
    \/ \E h \in Hosts, t \in {"SERVER", "WORKSTATION"} : asset_set_cb(h, t)

LoopNext ==
    \/ StartPoll
    \/ \E n \in 0..MaxUid : Fetch(n)
    \/ \E dt \in {0, window_seconds + 1} : Ingest(dt)
    \/ \E ok \in BOOLEAN : AdminSend(ok)
    \/ \E ok \in BOOLEAN : OwnerSend(ok)
    \/ \E ok \in BOOLEAN : ReplaySend(ok)
    \/ Ack
    \/ AckFail

Next == LoopNext \/ BotNext

Spec == Init /\ [][Next]_vars

(***************************************************************************)
(* Specification of the dedup engine alone: a sequence of sightings with   *)
(* non-decreasing timestamps, for every window and threshold drawn.        *)
(***************************************************************************)
InitDedup ==
    /\ dedup = EmptyTable
    /\ dedupLog = <<>>
    /\ clock = 0
    /\ window_seconds \in 1..MaxWindow
    /\ repeat_threshold \in 1..MaxThreshold
    /\ PipeInit
    /\ NoCall
    /\ NoRun

Sighting(fp, dt) ==
    /\ Len(dedupLog) < MaxSightings
    /\ LET now == clock + dt
           eid == Len(dedupLog) + 1
           res == should_send_alert(dedup, fp, now, window_seconds, repeat_threshold, eid)
       IN /\ clock' = now
          /\ dedup' = res.tbl
          /\ dedupLog' = Append(dedupLog, LogEntry(dedup, fp, now, eid, res))
    /\ UNCHANGED <<window_seconds, repeat_threshold, pipeVars>>
    /\ UNCHANGED fnVars

NextDedup == \E fp \in Fingerprints, dt \in 0..MaxGap : Sighting(fp, dt)

SpecDedup == InitDedup /\ [][NextDedup]_vars

(***************************************************************************)
(* The same program started on a store kept from an earlier run, in which  *)
(* two owners are bound to the first host.                                 *)
(***************************************************************************)
StoredOwners ==
    upsert_asset_recipient(
        upsert_asset_recipient(<<>>, strip(HostA), 3, "MEDIUM", TRUE),
        strip(HostA), 4, "HIGH", TRUE)

InitBound ==
    /\ PipeInitWith(ensure_asset([h \in {} |-> "UNCLASSIFIED"], HostA), StoredOwners)
    /\ dedup = EmptyTable
    /\ dedupLog = <<>>
    /\ clock = 0
    /\ window_seconds = 1
    /\ repeat_threshold = 2
    /\ NoCall
    /\ NoRun

SpecBound == InitBound /\ [][Next]_vars

(***************************************************************************)
(* imap_loop on a mailbox that receives no mail and whose server may       *)
(* refuse the connection: every cycle either finds nothing or fails.       *)
(***************************************************************************)
\* `while True:` enters _poll_once after the sleep
StartCycle ==
    /\ pc = "idle"
    /\ cycles < MaxCycles
    /\ pc' = "fetch"
    /\ attempt' = 1
    /\ mode' = "unseen"
    /\ cycles' = cycles + 1
    /\ waits' = <<>>
    /\ UNCHANGED <<dedupVars, storeVars, sourceVars, bot_ops, loop_log, polls, msgs, idx,
                   uids_to_mark_seen, cur_email_id, dispatch, admin_idx, admin_sent_any, recipients>>
    /\ UNCHANGED fnVars

\* the IMAP connection of the fetch fails (imaplib raises in _fetch_from_sync)
FetchFail ==
    /\ pc = "fetch"
    /\ RetryOrGiveUp

\* mutant: the cancellation is handled like a failed poll and the loop sleeps again
Cancel_Swallowed ==
    /\ pc \in {"idle", "fetch"}
    /\ pc' = "idle"
    /\ UNCHANGED <<dedupVars, storeVars, sourceVars, bot_ops, runVars, attempt, polls, mode,
                   msgs, idx, uids_to_mark_seen, cur_email_id, dispatch, admin_idx,
                   admin_sent_any, recipients>>
    /\ UNCHANGED fnVars

\* asyncio.CancelledError is raised at the await the loop is suspended in
Cancel ==
    /\ pc \in {"idle", "fetch"}
    /\ pc' = "cancelled"
    /\ UNCHANGED <<dedupVars, storeVars, sourceVars, bot_ops, runVars, attempt, polls, mode,
                   msgs, idx, uids_to_mark_seen, cur_email_id, dispatch, admin_idx,
                   admin_sent_any, recipients>>
    /\ UNCHANGED fnVars

NextLoop == StartCycle \/ Fetch(0) \/ FetchFail \/ Cancel

\* the sleep of imap_loop ends: asyncio.sleep returns after the poll interval
SpecLoop == Init /\ [][NextLoop]_vars /\ WF_vars(StartCycle)

(***************************************************************************)
(* One call of build_dispatch_message, for every stored classification of  *)
(* the device, every setting of ENABLE_LLM and every behaviour of the text *)
(* generation.                                                             *)
(***************************************************************************)
AssetTables ==
    { [h \in {} |-> "UNCLASSIFIED"],
      [h \in {strip(HostA)} |-> "UNCLASSIFIED"],
      [h \in {strip(HostA)} |-> "SERVER"] }

NoError == [name |-> None, msg |-> None]

\* the deterministic branch: format_rules_summary of the enriched event
RulesDispatch == build_dispatch_message(assets, arg.email_id, arg.event, arg.repeats)

InitDispatch ==
    /\ \E atbl \in AssetTables : PipeInitWith(atbl, <<>>)
    /\ dedup = EmptyTable
    /\ dedupLog = <<>>
    /\ clock = 0
    /\ window_seconds = 1
    /\ repeat_threshold = 2
    /\ call_pc = "called"
    /\ arg \in [event : {EventF, EventG, EventL}, repeats : 1..2, email_id : {1},
                enable_llm : BOOLEAN, llm_runner : BOOLEAN]
    /\ ret = NoDispatch
    /\ llm_attempt = 0
    /\ llm_calls = <<>>
    /\ llm_sleeps = <<>>
    /\ NoRun

\* lines 123-145 and 166-169: without the text generation the rule-based text is
\* returned; with it the loop is entered
BuildStart ==
    /\ call_pc = "called"
    /\ IF arg.enable_llm /\ arg.llm_runner
       THEN call_pc' = "llm" /\ ret' = ret
       ELSE call_pc' = "returned" /\ ret' = RulesDispatch
    /\ UNCHANGED <<dedupVars, pipeVars, taskVars, arg, llm_attempt, llm_calls, llm_sleeps>>

\* lines 147-149: llm_runner returns a text; `break`
LlmReturns(k) ==
    /\ call_pc = "llm"
    /\ llm_calls' = Append(llm_calls, [ok |-> TRUE, text |-> LlmText(k), err |-> NoError])
    /\ ret' = [RulesDispatch EXCEPT !.text = LlmText(k)]
    /\ call_pc' = "returned"
    /\ UNCHANGED <<dedupVars, pipeVars, taskVars, arg, llm_attempt, llm_sleeps>>

\* lines 150-159: llm_runner raises; sleep and `continue`, or the fallback and `break`
LlmRaises(e) ==
    /\ call_pc = "llm"
    /\ llm_calls' = Append(llm_calls, [ok |-> FALSE, text |-> NoText, err |-> e])
    /\ IF LlmMayRetry(e, llm_attempt)
       THEN /\ llm_sleeps' = Append(llm_sleeps, 1 * (2 ^ llm_attempt))
            /\ llm_attempt' = llm_attempt + 1
            /\ UNCHANGED <<call_pc, ret>>
       ELSE /\ ret' = [RulesDispatch EXCEPT !.text = FallbackText(@, e)]
            /\ call_pc' = "returned"
            /\ UNCHANGED <<llm_attempt, llm_sleeps>>
    /\ UNCHANGED <<dedupVars, pipeVars, taskVars, arg>>

NextDispatch ==
    \/ BuildStart
    \/ \E k \in 1..MaxLlmTexts : LlmReturns(k)
    \/ \E e \in LlmErrors : LlmRaises(e)

SpecDispatch == InitDispatch /\ [][NextDispatch]_vars

(***************************************************************************)
(* One call of enrich_with_rules, for every event type, detection name,    *)
(* vendor severity and asset classification of the sets below.             *)
(***************************************************************************)
TypeInputs ==
    { None, <<>>, <<"S","c","a","n">>, <<"R","A","N","S","O","M","W","A","R","E">>, <<"M","a","l","w","a","r","e"," ","f","o","u","n","d">>, <<"A","n"," ","E","x","p","l","o","i","t">>, <<"m","a","l"," ","w","a","r","e">> }

DetectionInputs ==
    { None, <<>>, <<"e","i","c","a","r">>, <<"T","r","o","j","a","n","-","R","a","n","s","o","m","w","a","r","e",".","X">>, <<"E","X","P","L","O","I","T",".","W","i","n">>, <<"H","E","U","R",":","M","a","l","w","a","r","e">> }

SeverityInputs ==
    { None, <<>>, <<"C","r","i","t","i","c","a","l">>, <<"H","I","G","H">>, <<" ","m","e","d","i","u","m"," ">>, <<"M","o","d","e","r","a","t","e">>, <<"l","o","w">>,
      <<"I","n","f","o">>, <<" "," ">>, <<"b","o","g","u","s">> }

\* AssetType, and None for a device without a row in assets
AssetInputs == {"SERVER", "WORKSTATION", "UNCLASSIFIED", "None"}

NotEnriched == [risk_level |-> "None", risk_reason |-> "None"]

InitRules ==
    /\ Started
    /\ call_pc = "called"
    /\ \E et \in TypeInputs, dn \in DetectionInputs, vs \in SeverityInputs, at \in AssetInputs :
          arg = [event |-> [EventF EXCEPT !.event_type = et, !.detection_name = dn,
                                          !.vendor_severity = vs],
                 asset_type |-> at]
    /\ ret = NotEnriched
    /\ llm_attempt = 0
    /\ llm_calls = <<>>
    /\ llm_sleeps = <<>>
    /\ NoRun

\* enriched = enrich_with_rules(event, asset_type)
Enrich ==
    /\ call_pc = "called"
    /\ ret' = enrich_with_rules(arg.event, arg.asset_type)
    /\ call_pc' = "returned"
    /\ UNCHANGED <<dedupVars, pipeVars, taskVars, arg, llm_attempt, llm_calls, llm_sleeps>>

NextRules == Enrich

SpecRules == InitRules /\ [][NextRules]_vars

(***************************************************************************)
(* fingerprint() of two events: a first event, one of its fields holding a *)
(* "|" or none, and a second one that differs from it in at most two of    *)
(* the five identity fields.                                               *)
(***************************************************************************)
IdentityFields == {"device", "event_type", "detection_name", "object_path", "result"}

BaseValues == { None, <<"A","b">> }

FieldValues == { None, <<>>, <<" ">>, <<"A","b">>, <<" ","a","B"," "," ">>, <<"c","d">>, <<"a","|">>,
                 <<"a">>, <<"|">> }

NoFingerprints == [a |-> <<>>, b |-> <<>>]

InitFingerprint ==
    /\ Started
    /\ call_pc = "called"
    /\ \E d \in BaseValues, et \in BaseValues, dn \in BaseValues, op \in BaseValues,
          rs \in BaseValues, f \in IdentityFields, g \in IdentityFields,
          bar \in BOOLEAN, v \in FieldValues, w \in FieldValues :
          LET first == [EventF EXCEPT !.device = d, !.event_type = et, !.detection_name = dn,
                                      !.object_path = op, !.result = rs]
          IN arg = [a |-> IF bar THEN [first EXCEPT ![f] = <<"a","|">>] ELSE first,
                    b |-> [[first EXCEPT ![f] = v] EXCEPT ![g] = w]]
    /\ ret = NoFingerprints
    /\ llm_attempt = 0
    /\ llm_calls = <<>>
    /\ llm_sleeps = <<>>
    /\ NoRun

\* event.fingerprint() of both events
Fingerprint ==
    /\ call_pc = "called"
    /\ ret' = [a |-> fingerprint(arg.a), b |-> fingerprint(arg.b)]
    /\ call_pc' = "returned"
    /\ UNCHANGED <<dedupVars, pipeVars, taskVars, arg, llm_attempt, llm_calls, llm_sleeps>>

NextFingerprint == Fingerprint

SpecFingerprint == InitFingerprint /\ [][NextFingerprint]_vars

(***************************************************************************)
(* One call of KasperskyEmailParser.parse on a body whose key/value lines  *)
(* are up to MaxNames name lines and at most one event time line.          *)
(***************************************************************************)
NameInputs ==
    { <<"s","v","c",".","e","x","e">>, <<"r","u","n",".","b","a","t">>,
      <<"H","E","U","R",":","G","e","n">>, <<"c",":","a",".","p","s","1">>,
      <<"c",":","a",".","e","x","e">>, <<"e","i","c","a","r">>,
      <<"W","o","r","m",".","x">>, <<"t","r","o","j","a","n",".","e","x","e">> }

NameLists == UNION {[1..n -> NameInputs] : n \in 0..MaxNames}

\* the value of the event time line: no such line, a date, or a text that is no date
TimeInputs == {None, TimeText, <<"n","/","a">>}

\* _guess_date of the Date header
DateInputs == {NoValue, DatetimeValue(TimeValue + 1)}

InitExtract ==
    /\ Started
    /\ call_pc = "called"
    /\ \E names \in NameLists, t \in TimeInputs, d \in DateInputs :
          arg = [stream |-> [n \in DOMAIN names |-> [key |-> "name", val |-> names[n]]]
                            \o (IF t = None THEN <<>> ELSE <<[key |-> "event time", val |-> t]>>),
                 date |-> d]
    /\ ret = [raised |-> FALSE, event |-> NoEvent, entries |-> [process |-> 0, detection |-> 0]]
    /\ llm_attempt = 0
    /\ llm_calls = <<>>
    /\ llm_sleeps = <<>>
    /\ NoRun

\* parsed = parser.parse(uid=m.uid, raw_email=m.raw)
Extract ==
    /\ call_pc = "called"
    /\ ret' = BuildEvent(arg.stream, arg.date)
    /\ call_pc' = "returned"
    /\ UNCHANGED <<dedupVars, pipeVars, taskVars, arg, llm_attempt, llm_calls, llm_sleeps>>

NextExtract == Extract

SpecExtract == InitExtract /\ [][NextExtract]_vars

(***************************************************************************)
(* Settings are loaded with IMAP_POLL_INTERVAL_SECONDS set to a string of  *)
(* up to MaxIntervalLen characters, and imap_loop sleeps once.             *)
(***************************************************************************)
IntervalChars == {"0", "3", "5", "7", "-", ".", " ", "x"}

IntervalInputs == UNION {[1..n -> IntervalChars] : n \in 0..MaxIntervalLen}

InitInterval ==
    /\ Started
    /\ call_pc = "called"
    /\ arg \in IntervalInputs
    /\ ret = 0
    /\ llm_attempt = 0
    /\ llm_calls = <<>>
    /\ llm_sleeps = <<>>
    /\ NoRun

\* Settings(): the validator runs on the configured value
LoadInterval ==
    /\ call_pc = "called"
    /\ ret' = _poll_interval_min_5(arg)
    /\ call_pc' = "returned"
    /\ UNCHANGED <<dedupVars, pipeVars, taskVars, arg, llm_attempt, llm_calls, llm_sleeps>>

\* await asyncio.sleep(settings.imap_poll_interval_seconds)
LoopSleep ==
    /\ call_pc = "returned"
    /\ clock' = clock + ret
    /\ call_pc' = "slept"
    /\ UNCHANGED <<dedup, dedupLog, window_seconds, repeat_threshold, pipeVars, taskVars, arg, ret,
                   llm_attempt, llm_calls, llm_sleeps>>

NextInterval == LoadInterval \/ LoopSleep

SpecInterval == InitInterval /\ [][NextInterval]_vars

(***************************************************************************)
(* run(): the notification-channel listener (polling_task) and imap_loop   *)
(* (imap_task) as two asyncio tasks, the mailbox empty.  run() waits for   *)
(* the first task to complete, cancels the pending one, gathers it, looks  *)
(* at the exception of the completed one and cleans up in `finally`.       *)
(***************************************************************************)
Tasks == {"telegram_polling", "imap_loop"}

\* Task.done()
TaskDone(t) ==
    IF t = "telegram_polling" THEN polling # "running" ELSE pc \in {"cancelled", "died"}

\* Task.exception() of a done task returns an exception or raises CancelledError
TaskRaised(t) ==
    IF t = "telegram_polling" THEN polling \in {"failed", "cancelled"}
    ELSE pc \in {"cancelled", "died"}

InitRun ==
    /\ Started
    /\ NoCall
    /\ run_pc = "wait"
    /\ polling = "running"
    /\ cancel_req = {}
    /\ done = {}

\* one step of polling_task, ending in the state `to`
PollingEnds(to) ==
    /\ polling = "running"
    /\ polling' = to
    /\ UNCHANGED <<dedupVars, pipeVars, call_pc, arg, ret, llm_attempt, llm_calls, llm_sleeps,
                   run_pc, cancel_req, done>>

\* SIGTERM: aiogram stops polling and start_polling returns
PollingStops == "telegram_polling" \notin cancel_req /\ PollingEnds("finished")

\* start_polling raises
PollingFails == "telegram_polling" \notin cancel_req /\ PollingEnds("failed")

\* the cancellation requested by run() reaches polling_task
PollingCancelled == "telegram_polling" \in cancel_req /\ PollingEnds("cancelled")

\* imap_loop runs on: the sleep ends, a fetch of the empty mailbox, a failing fetch
ImapStep ==
    /\ "imap_loop" \notin cancel_req
    /\ (StartCycle \/ Fetch(0) \/ FetchFail)

\* the cancellation requested by run() reaches imap_loop at the await it is suspended in
ImapCancelled ==
    /\ "imap_loop" \in cancel_req
    /\ Cancel

\* a BaseException that is neither an Exception nor a CancelledError leaves imap_loop:
\* no except clause of the loop handles it
ImapDies ==
    /\ "imap_loop" \notin cancel_req
    /\ pc \in {"idle", "fetch"}
    /\ pc' = "died"
    /\ UNCHANGED <<dedupVars, storeVars, sourceVars, bot_ops, runVars, attempt, polls, mode,
                   msgs, idx, uids_to_mark_seen, cur_email_id, dispatch, admin_idx,
                   admin_sent_any, recipients>>
    /\ UNCHANGED fnVars

\* one step of run() itself
RunStep(to, req, dn) ==
    /\ run_pc' = to
    /\ cancel_req' = req
    /\ done' = dn
    /\ UNCHANGED <<dedupVars, pipeVars, call_pc, arg, ret, llm_attempt, llm_calls, llm_sleeps,
                   polling>>

\* asyncio.wait(..., return_when=FIRST_COMPLETED) returns the tasks done by then
RunWait ==
    /\ run_pc = "wait"
    /\ \E t \in Tasks : TaskDone(t)
    /\ RunStep("cancel", cancel_req, {t \in Tasks : TaskDone(t)})

\* for t in pending: t.cancel()  (without effect on a task that ended in the meantime)
CancelPending ==
    /\ run_pc = "cancel"
    /\ RunStep("gather", cancel_req \cup (Tasks \ done), done)

\* await asyncio.gather(*pending, return_exceptions=True)
GatherPending ==
    /\ run_pc = "gather"
    /\ \A t \in Tasks \ done : TaskDone(t)
    /\ RunStep("check", cancel_req, done)

\* for t in done: exc = t.exception(); if exc: raise exc
CheckDone ==
    /\ run_pc = "check"
    /\ RunStep(IF \E t \in done : TaskRaised(t) THEN "finally_raise" ELSE "finally_return",
               cancel_req, done)

\* finally: cancel what is not done
FinallyCancel ==
    /\ run_pc \in {"finally_raise", "finally_return"}
    /\ RunStep(IF run_pc = "finally_raise" THEN "gather_raise" ELSE "gather_return",
               cancel_req \cup {t \in Tasks : ~TaskDone(t)}, done)

\* finally: gather both tasks and close the bot session; run() returns or raises
FinallyGather ==
    /\ run_pc \in {"gather_raise", "gather_return"}
    /\ \A t \in Tasks : TaskDone(t)
    /\ RunStep(IF run_pc = "gather_raise" THEN "raised" ELSE "returned", cancel_req, done)

NextRun ==
    \/ PollingStops \/ PollingFails \/ PollingCancelled
    \/ ImapStep \/ ImapCancelled \/ ImapDies
    \/ RunWait \/ CancelPending \/ GatherPending \/ CheckDone \/ FinallyCancel \/ FinallyGather

\* the event loop runs every ready task: run() goes on when what it awaits is done, and a
\* requested cancellation is thrown into the task at the await it is suspended in
SpecRun ==
    /\ InitRun
    /\ [][NextRun]_vars
    /\ WF_vars(RunWait) /\ WF_vars(CancelPending) /\ WF_vars(GatherPending)
    /\ WF_vars(CheckDone) /\ WF_vars(FinallyCancel) /\ WF_vars(FinallyGather)
    /\ WF_vars(ImapCancelled) /\ WF_vars(PollingCancelled)

(***************************************************************************)
(* Claims about the ingestion loop and the dispatch router, stated over    *)
(* the store, the send log of the notification channel and the dedup log.  *)
(***************************************************************************)
SendIdx == DOMAIN tg_log
BatchIdx == DOMAIN msgs

\* some admin address has accepted the message
AdminDelivered(id) ==
    \E n \in SendIdx :
        tg_log[n].email_id = id /\ tg_log[n].ok /\ tg_log[n].chat_id \in AdminSet

\* the dedup decision of the message was shouldAlert = TRUE
AlertDecided(id) ==
    \E n \in DOMAIN dedupLog : dedupLog[n].email_id = id /\ dedupLog[n].send

HasReceipt(id) == \E n \in DOMAIN telegram_messages : telegram_messages[n].email_id = id

\* the admin sends of the message made in poll p
AdminAttempts(id, p) ==
    {n \in SendIdx : tg_log[n].email_id = id /\ tg_log[n].path = "admin" /\ tg_log[n].poll = p}

\* every admin address was tried in poll p and none accepted
AllAdminsFailed(id, p) ==
    /\ Cardinality(AdminAttempts(id, p)) = Len(admin_chats)
    /\ \A n \in AdminAttempts(id, p) : ~tg_log[n].ok

\* the n-th message of the current batch has been through the loop body
Processed(n) == n \in BatchIdx /\ n < idx

\* the n-th message of the current batch was ingested by an earlier poll
Refetched(n) ==
    /\ n \in BatchIdx
    /\ EmailIdOf(emails, msgs[n]) # 0
    /\ emails[EmailIdOf(emails, msgs[n])].raw_text[2] < polls

\* the step is one iteration of the loop body up to its first send
IngestStep == pc = "msg" /\ (pc' # pc \/ idx' # idx)

\* C1: a message whose dedup decision was shouldAlert = TRUE is in an
\* acknowledgment batch only if at least one admin delivery of it succeeded.
C1_AckOnlyAfterAdminDelivery ==
    \A n \in DOMAIN uids_to_mark_seen :
        LET id == EmailIdOf(emails, uids_to_mark_seen[n]) IN
        AlertDecided(id) => AdminDelivered(id)

\* C2: whenever the dedup engine returns shouldAlert = FALSE for a sighting, an
\* earlier message with the same fingerprint was delivered to some admin.
C2_SuppressedOnlyAfterDelivery ==
    \A n \in DOMAIN dedupLog :
        ~dedupLog[n].send =>
            \E m \in 1..(n - 1) :
                /\ dedupLog[m].fingerprint = dedupLog[n].fingerprint
                /\ AdminDelivered(dedupLog[m].email_id)

\* C3: a message whose admin sends all failed in an earlier poll, once it has been
\* fetched again and processed in a poll in which no send failed, is delivered
\* to at least one admin.
C3_RefetchedIsDelivered ==
    \A n \in BatchIdx :
        LET id == EmailIdOf(emails, msgs[n]) IN
        ( /\ Processed(n) /\ Refetched(n)
          /\ \E p \in 1..(polls - 1) : AllAdminsFailed(id, p)
          /\ \A j \in SendIdx : tg_log[j].poll = polls => tg_log[j].ok )
        => AdminDelivered(id)

\* C4: when an already ingested UID is fetched again and no receipt exists for
\* the message, the loop body takes the normal path: it classifies the message
\* and starts the admin fan-out.
C4_NoReceiptFallsThrough ==
    [][ ( /\ IngestStep
          /\ EmailIdOf(emails, msgs[idx]) # 0
          /\ ~HasReceipt(EmailIdOf(emails, msgs[idx])) )
        => ( /\ pc' = "admins"
             /\ dispatch'.email_id = EmailIdOf(emails, msgs[idx])
             /\ dispatch'.text.html = 0 ) ]_vars

\* C5: in a poll in which every admin send of a newly ingested message failed,
\* the UID of that message is not in the acknowledgment batch of the poll, and
\* the loop still goes through every message of the batch before it acknowledges.
C5_HardFailNotAcked ==
    /\ \A n \in BatchIdx :
          AllAdminsFailed(EmailIdOf(emails, msgs[n]), polls) =>
              \A j \in DOMAIN uids_to_mark_seen : uids_to_mark_seen[j] # msgs[n]
    /\ pc = "ack" =>
          /\ idx = Len(msgs) + 1
          /\ \A n \in BatchIdx : EmailIdOf(emails, msgs[n]) # 0

C5_Witness ==
    /\ pc = "ack"
    /\ \E a, b \in BatchIdx :
          /\ a < b
          /\ AllAdminsFailed(EmailIdOf(emails, msgs[a]), polls)
          /\ AdminDelivered(EmailIdOf(emails, msgs[b]))
          /\ \E j \in DOMAIN uids_to_mark_seen : uids_to_mark_seen[j] = msgs[b]

\* C6: the receipt table never holds two receipts for one (message, address)
\* pair; every receipt is the record of one accepted send; and no send is ever
\* attempted to a pair that already has a receipt.
C6_OneReceiptPerPair ==
    /\ \A a, b \in DOMAIN telegram_messages :
          ( /\ telegram_messages[a].email_id = telegram_messages[b].email_id
            /\ telegram_messages[a].chat_id = telegram_messages[b].chat_id ) => a = b
    /\ Len(telegram_messages) = Cardinality({n \in SendIdx : tg_log[n].ok})
    /\ \A n \in DOMAIN telegram_messages :
          \E j \in SendIdx :
              /\ tg_log[j].ok
              /\ tg_log[j].email_id = telegram_messages[n].email_id
              /\ tg_log[j].chat_id = telegram_messages[n].chat_id
    /\ \A a, b \in SendIdx :
          ( /\ a < b
            /\ tg_log[a].email_id = tg_log[b].email_id
            /\ tg_log[a].chat_id = tg_log[b].chat_id ) => ~tg_log[a].ok

\* a message delivered to an owner in an earlier poll has been through the
\* replay path of the current poll while the owner is still bound
C6_Witness ==
    \E n \in BatchIdx, r \in DOMAIN telegram_messages :
        /\ Processed(n) /\ Refetched(n)
        /\ telegram_messages[r].email_id = EmailIdOf(emails, msgs[n])
        /\ telegram_messages[r].chat_id \notin AdminSet
        /\ \E j \in SendIdx :
              /\ tg_log[j].email_id = telegram_messages[r].email_id
              /\ tg_log[j].chat_id = telegram_messages[r].chat_id
              /\ tg_log[j].poll < polls
        /\ \E q \in DOMAIN asset_recipients :
              asset_recipients[q].chat_id = telegram_messages[r].chat_id

\* C7: processing a message whose UID is already stored creates no message row
\* and no event row, leaves the stored body as it is, changes no dedup record
\* and does not run the classifier (no new rule-based rendering is built).
C7_ReingestFrame ==
    [][ ( \/ IngestStep /\ EmailIdOf(emails, msgs[idx]) # 0
          \/ pc = "replay" )
        => ( /\ emails' = emails
             /\ events' = events
             /\ dedup' = dedup
             /\ dedupLog' = dedupLog
             /\ (dispatch' = dispatch \/ dispatch'.text.html > 0) ) ]_vars

C7_Witness ==
    \E n \in BatchIdx :
        /\ Processed(n) /\ Refetched(n)
        /\ HasReceipt(EmailIdOf(emails, msgs[n]))
        /\ dispatch.email_id = EmailIdOf(emails, msgs[n])
        /\ dispatch.text.html > 0
        /\ Cardinality({e \in DOMAIN events : events[e].email_id = EmailIdOf(emails, msgs[n])}) = 1

\* the step sends a message on the per-device recipient path (new or replay)
RecipientSendStep == pc \in {"owners", "replay"} /\ tg_log' # tg_log

\* the send the step appends to the send log
SentNow == tg_log'[Len(tg_log')]

\* C14: on the new-message path and on the replay path alike, a per-device
\* recipient bound with minimum-risk threshold X is not sent a message whose
\* risk rank (INFO < LOW < MEDIUM < HIGH < CRITICAL) is below X; X is the
\* threshold of the binding the loop read when it resolved the recipients.
C14_ThresholdRespected ==
    [][ RecipientSendStep =>
          /\ SentNow.chat_id = Head(recipients).chat_id
          /\ RiskRankOr(SentNow.text.risk_level, 0) >= RiskRankOr(Head(recipients).min_risk, 2)
          /\ RiskRankOr(dispatch.risk_level, 0) = RiskRankOr(SentNow.text.risk_level, 0) ]_vars

\* a bound recipient has been sent one message of the batch and has been passed
\* over for another, delivered to an admin, whose rank is below the threshold
C14_Witness ==
    \E n \in SendIdx, b \in BatchIdx, q \in DOMAIN asset_recipients, a \in SendIdx :
        /\ tg_log[n].path \in {"owner", "replay"}
        /\ asset_recipients[q].chat_id = tg_log[n].chat_id
        /\ Processed(b)
        /\ tg_log[a].email_id = EmailIdOf(emails, msgs[b])
        /\ tg_log[a].path = "admin" /\ tg_log[a].ok
        /\ RiskRankOr(tg_log[a].text.risk_level, 0) < RiskRankOr(asset_recipients[q].min_risk, 2)
        /\ RiskRankOr(tg_log[n].text.risk_level, 0) >= RiskRankOr(asset_recipients[q].min_risk, 2)
        /\ \A j \in SendIdx :
              ~(tg_log[j].email_id = tg_log[a].email_id /\ tg_log[j].chat_id = tg_log[n].chat_id)

\* every address of the admin configuration, repeated or not
AdminConfigured ==
    {telegram_chat_id} \cup {telegram_admin_chat_ids[n] : n \in DOMAIN telegram_admin_chat_ids}

\* C15: an address of the admin list is never sent a message on the per-device
\* recipient path (new or replay), and each admin address is sent a given
\* message at most once, also when it is bound as a recipient of the device or
\* is listed more than once in the admin configuration.
C15_AdminsOnlyOnce ==
    /\ \A n \in SendIdx :
          tg_log[n].path \in {"owner", "replay"} => tg_log[n].chat_id \notin AdminConfigured
    /\ \A a, b \in SendIdx :
          ( /\ tg_log[a].chat_id \in AdminConfigured
            /\ tg_log[a].chat_id = tg_log[b].chat_id
            /\ tg_log[a].email_id = tg_log[b].email_id ) => a = b

\* an admin address that was bound to the device, with a threshold the message
\* meets, when the admin fan-out sent to it; the message has been processed
C15_Witness ==
    \E n \in SendIdx, b \in BatchIdx, q \in DOMAIN asset_recipients :
        /\ tg_log[n].path = "admin" /\ tg_log[n].ok
        /\ tg_log[n].chat_id \in tg_log[n].bound
        /\ Len(<<telegram_chat_id>> \o telegram_admin_chat_ids) > Cardinality(AdminConfigured)
        /\ Processed(b)
        /\ EmailIdOf(emails, msgs[b]) = tg_log[n].email_id
        /\ asset_recipients[q].chat_id = tg_log[n].chat_id
        /\ asset_recipients[q].enabled
        /\ RiskRankOr(tg_log[n].text.risk_level, 0) >= RiskRankOr(asset_recipients[q].min_risk, 2)

\* C16: the text sent and recorded on the replay path is the rendered text of
\* the most recent receipt of the message, so all sends and all receipts of one
\* message carry the same rendered text and the same risk level.
C16_ReplayIsVerbatim ==
    /\ \A a, b \in DOMAIN telegram_messages :
          telegram_messages[a].email_id = telegram_messages[b].email_id =>
              /\ telegram_messages[a].text_sent = telegram_messages[b].text_sent
              /\ telegram_messages[a].risk_level = telegram_messages[b].risk_level
    /\ \A n \in SendIdx, r \in DOMAIN telegram_messages :
          tg_log[n].email_id = telegram_messages[r].email_id =>
              /\ tg_log[n].text = telegram_messages[r].text_sent
              /\ tg_log[n].text.html = 1
              /\ tg_log[n].text.risk_level = telegram_messages[r].risk_level

\* a message has a receipt of the admin fan-out and a receipt written by a later
\* replay to an owner
C16_Witness ==
    \E n \in SendIdx, a, r \in DOMAIN telegram_messages :
        /\ tg_log[n].path = "replay" /\ tg_log[n].ok
        /\ telegram_messages[r].email_id = tg_log[n].email_id
        /\ telegram_messages[r].chat_id = tg_log[n].chat_id
        /\ telegram_messages[a].email_id = tg_log[n].email_id
        /\ telegram_messages[a].chat_id \in AdminSet
        /\ a < r

\* the receipt of the message written last
LatestReceipt(id) ==
    telegram_messages[CHOOSE m \in DOMAIN telegram_messages :
        /\ telegram_messages[m].email_id = id
        /\ \A j \in DOMAIN telegram_messages : telegram_messages[j].email_id = id => j <= m]

C18_IndependentPerAddress ==
    [][ /\ ( pc = "admins" /\ tg_log' # tg_log ) =>
            /\ SentNow.chat_id = admin_chats[admin_idx]
            /\ admin_idx < Len(admin_chats) =>
                  /\ pc' = "admins"
                  /\ admin_idx' = admin_idx + 1
                  /\ idx' = idx
        /\ ( pc = "owners" /\ tg_log' # tg_log ) =>
            /\ SentNow.chat_id = Head(recipients).chat_id
            /\ recipients' = Tail(recipients)
            /\ Tail(recipients) # <<>> => (pc' = "owners" /\ idx' = idx)
            /\ Tail(recipients) = <<>> =>
                  /\ idx' = idx + 1
                  /\ uids_to_mark_seen' = Append(uids_to_mark_seen, msgs[idx]) ]_vars

\* the first admin and the first recipient of a message both failed, the
\* second admin and the second recipient were attempted afterwards, and the
\* message is in the acknowledgment batch
C18_Witness ==
    \E a1, a2, o1, o2 \in SendIdx :
        /\ a1 < a2 /\ a2 < o1 /\ o1 < o2
        /\ tg_log[a1].path = "admin" /\ ~tg_log[a1].ok
        /\ tg_log[a2].path = "admin" /\ tg_log[a2].ok
        /\ tg_log[o1].path = "owner" /\ ~tg_log[o1].ok
        /\ tg_log[o2].path = "owner"
        /\ tg_log[o1].chat_id # tg_log[o2].chat_id
        /\ \A n \in {a2, o1, o2} :
              tg_log[n].email_id = tg_log[a1].email_id /\ tg_log[n].poll = polls
        /\ \E b \in BatchIdx, j \in DOMAIN uids_to_mark_seen :
              /\ EmailIdOf(emails, msgs[b]) = tg_log[a1].email_id
              /\ uids_to_mark_seen[j] = msgs[b]

\* messages of the batch before the one in hand have been through the loop
\* body, those after it have not been touched by this poll
InBatchOrder ==
    pc \in {"msg", "admins", "owners", "replay", "ack"} =>
        \A b \in BatchIdx :
            /\ b < idx => EmailIdOf(emails, msgs[b]) # 0
            /\ (b > idx /\ EmailIdOf(emails, msgs[b]) # 0) => Refetched(b)
            /\ \A a \in BatchIdx : a < b => msgs[a] < msgs[b]

\* the acknowledgment batch holds UIDs of the current batch only, each once, in
\* batch order, and none that the loop has not reached yet
BatchOfThisPoll ==
    /\ \A j \in DOMAIN uids_to_mark_seen :
          \E b \in BatchIdx : b <= idx /\ msgs[b] = uids_to_mark_seen[j]
    /\ \A j, k \in DOMAIN uids_to_mark_seen :
          j < k => uids_to_mark_seen[j] < uids_to_mark_seen[k]

\* C19: within one poll the messages are processed in the order returned by
\* the mail source; acknowledge is issued at most once per poll, only after
\* every fetched message has been attempted, and only for UIDs fetched in that
\* poll.
C19_OrderedBatchSingleAck ==
    [][ /\ InBatchOrder' /\ BatchOfThisPoll'
        /\ (pc \in {"msg", "admins", "owners", "replay"} /\ msgs' = msgs) =>
              /\ idx' \in {idx, idx + 1}
              /\ pc' = "ack" <=> idx' = Len(msgs) + 1
              /\ \A n \in DOMAIN tg_log' \ DOMAIN tg_log :
                    tg_log'[n].email_id = EmailIdOf(emails', msgs[idx])
        /\ (pc = "ack" /\ (pc' # pc \/ seen' # seen)) =>
              /\ idx = Len(msgs) + 1
              /\ pc' \in {"idle", "fetch"}
              /\ seen' \ seen \subseteq {uids_to_mark_seen[j] : j \in DOMAIN uids_to_mark_seen}
              /\ seen' \ seen \subseteq {msgs[b] : b \in BatchIdx}
        /\ seen' # seen => pc = "ack" ]_vars

C19_Witness ==
    /\ pc = "idle"
    /\ Len(msgs) = 2
    /\ idx = 3
    /\ polls = 2
    /\ {msgs[b] : b \in BatchIdx} \subseteq seen
    /\ \A a, b \in BatchIdx : a < b => EmailIdOf(emails, msgs[a]) < EmailIdOf(emails, msgs[b])
    /\ \E b \in BatchIdx : Refetched(b)

\* C20: a cycle that ends in an error after its retries are exhausted does not
\* end the ingestion loop: the failure is logged, the loop sleeps and then
\* starts the next cycle; the loop leaves its cycle of polling and sleeping
\* only by cancellation.
C20_LoopSurvivesFailedCycle ==
    /\ [](pc \in {"idle", "fetch", "cancelled"})
    /\ [][ /\ (pc = "fetch" /\ attempt = MaxAttempts /\ loop_log' # loop_log) =>
                (pc' = "idle" /\ loop_log' = Append(loop_log, cycles))
           /\ pc = "cancelled" => pc' = "cancelled" ]_vars
    /\ \A c \in 1..(MaxCycles - 1) :
          (\E n \in DOMAIN loop_log : loop_log[n] = c)
              ~> (cycles > c \/ pc = "cancelled")

\* a cycle has failed on its last attempt and a later cycle is polling
C20_Witness ==
    /\ pc = "fetch"
    /\ \E n \in DOMAIN loop_log : loop_log[n] < cycles
    /\ \E n \in DOMAIN loop_log : loop_log[n] + 1 = cycles

\* a step in which an attempt of the poll fails
AttemptFails == pc \in {"fetch", "ack"} /\ (attempt' # attempt \/ loop_log' # loop_log)

\* C21: retry of a failing cycle is bounded: one tick makes at most 5 attempts of
\* the poll, the sleeps between them double from one second (1, 2, 4, 8), and
\* the failure of the fifth attempt ends the tick instead of starting a sixth.
C21_BoundedBackoff ==
    /\ [](attempt \in 1..5)
    /\ [](pc = "fetch" => waits = SubSeq(<<1, 2, 4, 8>>, 1, attempt - 1))
    /\ [][ /\ (AttemptFails /\ attempt < 5) =>
                (pc' = "fetch" /\ attempt' = attempt + 1 /\ cycles' = cycles)
           /\ (AttemptFails /\ attempt = 5) =>
                (pc' = "idle" /\ attempt' = 5 /\ waits' = waits) ]_vars

\* a tick has given up after its fifth attempt and four sleeps
C21_Witness ==
    /\ pc = "idle"
    /\ attempt = 5
    /\ waits = <<1, 2, 4, 8>>
    /\ loop_log # <<>> /\ loop_log[Len(loop_log)] = cycles

\* the text generation is configured for the call
LlmUsed == arg.enable_llm /\ arg.llm_runner
Transient(c) == ~c.ok /\ _is_retryable_llm_error(c.err)
Permanent(c) == ~c.ok /\ ~_is_retryable_llm_error(c.err)

\* C22: with enrichment enabled, when the text generation fails with a transient
\* error on every attempt it is invoked exactly 3 times (sleeping 1 s and 2 s in
\* between) and the text is the rule-based rendering followed by the fallback
\* marker; a success stops the retries and its text is the text returned.
C22_TransientRetriedThreeTimes ==
    /\ Len(llm_calls) <= 3
    /\ \A n \in DOMAIN llm_calls :
          llm_calls[n].ok =>
             /\ n = Len(llm_calls)
             /\ call_pc = "returned"
             /\ ret.text = llm_calls[n].text
    /\ (call_pc = "returned" /\ LlmUsed /\ \A n \in DOMAIN llm_calls : Transient(llm_calls[n])) =>
          /\ Len(llm_calls) = 3
          /\ llm_sleeps = <<1, 2>>
          /\ ret.text = [format_rules_summary(
                            enrich_with_rules(arg.event, get_asset_type(assets, arg.event.device)),
                            arg.event, get_asset_type(assets, arg.event.device), arg.repeats)
                         EXCEPT !.fallback = llm_calls[3].err.name]

\* three transient failures have ended in the fallback text
C22_Witness ==
    /\ call_pc = "returned"
    /\ Len(llm_calls) = 3
    /\ \A n \in DOMAIN llm_calls : Transient(llm_calls[n])
    /\ llm_calls[1].err # llm_calls[3].err
    /\ ret.text.fallback = llm_calls[3].err.name
    /\ ret.text.llm = 0

HasThreatMarker(ev) ==
    \E x \in {<<"r","a","n","s","o","m","w","a","r","e">>, <<"m","a","l","w","a","r","e">>, <<"e","x","p","l","o","i","t">>} :
        \/ Contains(lower(OrEmpty(ev.event_type)), x)
        \/ Contains(lower(OrEmpty(ev.detection_name)), x)

\* the rank of the vendor severity of the call
Rank == _severity_rank(arg.event.vendor_severity)

Classified == call_pc = "returned"

\* C24: classify returns CRITICAL whenever the event type or the detection name
\* contains any of the markers ransomware, malware or exploit, for every asset
\* classification and every vendor severity.
C24_MarkerIsCritical ==
    (Classified /\ HasThreatMarker(arg.event)) => ret.risk_level = "CRITICAL"

\* C25: with no threat marker, a SERVER and a vendor severity rank of medium or
\* above give HIGH with the reason "Critical Asset Involved"; a SERVER with a
\* lower rank gets the level of the standard scale and no reason.
C25_ServerMediumIsHigh ==
    (Classified /\ ~HasThreatMarker(arg.event) /\ arg.asset_type = "SERVER") =>
        IF Rank >= 2
        THEN ret = [risk_level |-> "HIGH", risk_reason |-> "Critical Asset Involved"]
        ELSE ret = [risk_level |-> IF Rank = 1 THEN "LOW" ELSE "INFO", risk_reason |-> "None"]

\* a server with vendor severity Moderate has been classified HIGH
C25_Witness ==
    /\ Classified
    /\ ~HasThreatMarker(arg.event)
    /\ arg.asset_type = "SERVER"
    /\ arg.event.vendor_severity = <<"M","o","d","e","r","a","t","e">>
    /\ ret.risk_level = "HIGH"

\* C26: with no threat marker and an UNCLASSIFIED asset, a vendor severity rank
\* of medium or above gives HIGH: with the "needs classification" reason for
\* rank 3 and with the soft-escalation reason for rank 2.
C26_UnclassifiedEscalates ==
    (Classified /\ ~HasThreatMarker(arg.event) /\ arg.asset_type = "UNCLASSIFIED" /\ Rank >= 2) =>
        /\ ret.risk_level = "HIGH"
        /\ Rank = 3 => ret.risk_reason = "Asset is UNCLASSIFIED (needs classification)"
        /\ Rank = 2 => ret.risk_reason = "Soft escalation: UNCLASSIFIED + Medium severity"

\* an unclassified asset with a medium vendor severity has been escalated to HIGH
C26_Witness ==
    /\ Classified
    /\ ~HasThreatMarker(arg.event)
    /\ arg.asset_type = "UNCLASSIFIED"
    /\ Rank = 2
    /\ ret.risk_level = "HIGH"
    /\ ret.risk_reason = "Soft escalation: UNCLASSIFIED + Medium severity"

\* none of the rules above the standard scale matches the call
NoRuleMatches ==
    /\ ~HasThreatMarker(arg.event)
    /\ ~(arg.asset_type = "SERVER" /\ Rank >= 2)
    /\ ~(arg.asset_type = "UNCLASSIFIED" /\ Rank >= 2)

\* C27: when none of rules 1-4 matches, the level is the vendor severity rank on
\* the standard scale (3 and above HIGH, 2 MEDIUM, 1 LOW, otherwise INFO), and an
\* UNCLASSIFIED asset adds the "needs classification" reason to that same level.
C27_StandardScale ==
    (Classified /\ NoRuleMatches) =>
        /\ ret.risk_level = CASE Rank >= 3 -> "HIGH"
                              [] Rank = 2 -> "MEDIUM"
                              [] Rank = 1 -> "LOW"
                              [] OTHER -> "INFO"
        /\ ret.risk_reason = IF arg.asset_type = "UNCLASSIFIED"
                             THEN "Asset is UNCLASSIFIED (needs classification)"
                             ELSE "None"

\* a workstation with a medium vendor severity has been classified MEDIUM
C27_Witness ==
    /\ Classified
    /\ NoRuleMatches
    /\ arg.asset_type = "WORKSTATION"
    /\ Rank = 2
    /\ ret = [risk_level |-> "MEDIUM", risk_reason |-> "None"]

\* the vendor severity is null, empty or, once trimmed and lowered, outside the
\* vocabulary critical, high, medium, moderate, low
UnknownSeverity(vs) ==
    \/ vs = None
    \/ lower(strip(vs)) \notin {<<"c","r","i","t","i","c","a","l">>, <<"h","i","g","h">>, <<"m","e","d","i","u","m">>, <<"m","o","d","e","r","a","t","e">>, <<"l","o","w">>}

\* C28: a null, empty or unknown vendor severity ranks 0, and an event with such
\* a severity and no threat marker is classified INFO for every asset
\* classification, the unknown asset included.
C28_UnknownSeverityIsInfo ==
    UnknownSeverity(arg.event.vendor_severity) =>
        /\ _severity_rank(arg.event.vendor_severity) = 0
        /\ (Classified /\ ~HasThreatMarker(arg.event)) => ret.risk_level = "INFO"

\* a server whose event carries a severity outside the vocabulary has been
\* classified INFO
C28_Witness ==
    /\ Classified
    /\ ~HasThreatMarker(arg.event)
    /\ arg.event.vendor_severity = <<"b","o","g","u","s">>
    /\ arg.asset_type = "SERVER"
    /\ ret.risk_level = "INFO"

(***************************************************************************)
(* Claims about the fingerprint, stated over the fingerprints of two       *)
(* events.                                                                 *)
(***************************************************************************)
Fingerprinted == call_pc = "returned"

\* two values of a field that differ at most by letter case and by surrounding
\* whitespace
SameButCaseAndSpace(x, y) ==
    \/ x = y
    \/ x # None /\ y # None /\ lower(strip(x)) = lower(strip(y))

\* the two events agree on every identity field but f
SameButField(f) == \A g \in IdentityFields \ {f} : arg.a[g] = arg.b[g]

\* C29: the fingerprint is deterministic and insensitive to letter case and to
\* surrounding whitespace: two events whose device, event_type, detection_name,
\* object_path and result differ only in those respects have the same fingerprint.
C29_CaseAndSpaceInsensitive ==
    (Fingerprinted /\ \A f \in IdentityFields : SameButCaseAndSpace(arg.a[f], arg.b[f])) =>
        ret.a = ret.b

\* two events that differ in letter case and padding in two fields have got the
\* same fingerprint
C29_Witness ==
    /\ Fingerprinted
    /\ \A f \in IdentityFields : SameButCaseAndSpace(arg.a[f], arg.b[f])
    /\ arg.a.result # arg.b.result
    /\ arg.a.device # arg.b.device
    /\ ret.a = ret.b

Normalized(x) == lower(strip(OrEmpty(x)))

\* C36: the string that is hashed determines the normalized identity tuple: two
\* events whose lower-cased, trimmed (device, event_type, detection_name,
\* object_path, result) tuples differ have different serialized strings.
C36_SerializationInjective ==
    (Fingerprinted /\ \E f \in IdentityFields : Normalized(arg.a[f]) # Normalized(arg.b[f])) =>
        ret.a # ret.b

(***************************************************************************)
(* Claims about the event extractor, stated over one call of parse.        *)
(***************************************************************************)
Extracted == call_pc = "returned"

\* the values of the name lines of the body
NameValues == AllOf(arg.stream, "name")

\* the value matches the executable/script extension pattern
LooksLikeProcess(v) == ExtSearch(lower(v), ScriptExts)

\* the value starts with a signature prefix, or contains a colon and does not
\* match an executable extension
LooksLikeDetection(v) ==
    \/ \E p \in SigPrefixes : StartsWith(lower(v), p)
    \/ (\E n \in DOMAIN v : v[n] = ":") /\ ~ExtSearch(lower(v), ExeExts)

\* the first value of the list that satisfies P
FirstValue(P(_)) ==
    NameValues[CHOOSE n \in DOMAIN NameValues :
                  /\ P(NameValues[n])
                  /\ \A m \in 1..(n - 1) : ~P(NameValues[m])]

\* C31: the event extractor never raises: for every message body, one with an
\* event time that is no parseable date included, it returns an event whose
\* unresolved fields are null.
C31_ExtractNeverRaises ==
    Extracted => ~ret.raised

\* C32: among the name values, the first one that matches the executable/script
\* extension pattern is the process name; the first one that starts with a
\* signature prefix, or contains a colon and matches no executable extension, is
\* the detection name; when neither holds of the only name there is, that name
\* is the detection name.
C32_NameHeuristics ==
    (Extracted /\ ~ret.raised) =>
        /\ (\E n \in DOMAIN NameValues : LooksLikeProcess(NameValues[n])) =>
               ret.event.process_name = FirstValue(LooksLikeProcess)
        /\ (\A n \in DOMAIN NameValues : ~LooksLikeProcess(NameValues[n])) =>
               ret.event.process_name = None
        /\ (\E n \in DOMAIN NameValues : LooksLikeDetection(NameValues[n])) =>
               ret.event.detection_name = FirstValue(LooksLikeDetection)
        /\ ( /\ Len(NameValues) = 1
             /\ ~LooksLikeProcess(NameValues[1])
             /\ ~LooksLikeDetection(NameValues[1]) ) =>
               ret.event.detection_name = NameValues[1]

\* a script with a drive letter and a plain name: the script is the process name
\* and, for its colon, the detection name
C32_Witness ==
    /\ Extracted
    /\ ~ret.raised
    /\ Len(NameValues) = 2
    /\ LooksLikeDetection(NameValues[1]) /\ LooksLikeProcess(NameValues[1])
    /\ ~LooksLikeDetection(NameValues[2]) /\ ~LooksLikeProcess(NameValues[2])
    /\ ret.event.detection_name = NameValues[1]

\* C37: name disambiguation never gives the same name value to the process name
\* and to the detection name: when both are non-null they come from different
\* entries of the list.
C37_DistinctEntries ==
    (Extracted /\ ret.entries.process # 0 /\ ret.entries.detection # 0) =>
        ret.entries.process # ret.entries.detection

\* C33: the polling interval has an enforced minimum: for every configured value
\* the interval the loop sleeps between cycles is at least 5 seconds; a smaller
\* integer is raised to 5, a larger one is kept and a value that is no integer
\* becomes 60.
C33_IntervalAtLeastFive ==
    /\ [](call_pc \in {"returned", "slept"} =>
            /\ ret >= 5
            /\ int_of(arg).raised => ret = 60
            /\ (~int_of(arg).raised /\ int_of(arg).value < 5) => ret = 5
            /\ (~int_of(arg).raised /\ int_of(arg).value >= 5) => ret = int_of(arg).value)
    /\ [][call_pc' = "slept" => clock' - clock >= 5]_vars

\* the interval was configured as 3 and the loop has slept 5 seconds
C33_Witness ==
    /\ call_pc = "slept"
    /\ arg = <<"3">>
    /\ ret = 5
    /\ clock = 5

\* the sends of path `path` for the message with the id
Attempts(id, path) == {n \in SendIdx : tg_log[n].email_id = id /\ tg_log[n].path = path}

\* C40: in the new-message path every per-device send attempt for a message comes
\* after all admin send attempts for it, and no per-device recipient is attempted
\* when every admin send failed; hence a message with a per-device receipt also
\* has an admin receipt.
C40_OwnersAfterAdmins ==
    /\ \A n \in SendIdx :
          tg_log[n].path = "owner" =>
              LET before == {m \in Attempts(tg_log[n].email_id, "admin") : m < n}
              IN /\ before = Attempts(tg_log[n].email_id, "admin")
                 /\ Cardinality(before) = Len(admin_chats)
                 /\ \E m \in before : tg_log[m].ok
    /\ \A r \in DOMAIN telegram_messages :
          telegram_messages[r].chat_id \notin AdminSet =>
              \E a \in DOMAIN telegram_messages :
                  /\ telegram_messages[a].email_id = telegram_messages[r].email_id
                  /\ telegram_messages[a].chat_id \in AdminSet

\* a per-device recipient has accepted a message after one admin send of it failed
\* and another succeeded
C40_Witness ==
    \E n \in SendIdx :
        /\ tg_log[n].path = "owner" /\ tg_log[n].ok
        /\ \E m \in Attempts(tg_log[n].email_id, "admin") : ~tg_log[m].ok
        /\ \E r \in DOMAIN telegram_messages :
              /\ telegram_messages[r].email_id = tg_log[n].email_id
              /\ telegram_messages[r].chat_id = tg_log[n].chat_id

(***************************************************************************)
(* Claims about run() and the shutdown of its two tasks.                   *)
(***************************************************************************)
RunEnded == run_pc \in {"returned", "raised"}

\* Task.cancel() was called on the tasks run() found pending, and they are done
PendingCancelled ==
    \A t \in Tasks \ done :
        /\ t \in cancel_req
        /\ TaskDone(t)

\* a requested cancellation ends imap_loop and is not logged as a failed poll
NotSwallowed ==
    ("imap_loop" \in cancel_req /\ pc \in {"idle", "fetch"} /\ pc' # pc)
        => (pc' = "cancelled" /\ loop_log' = loop_log)

\* C34 as stated: once either task has terminated, the other one is cancelled and
\* awaited to completion and run() returns; a cancellation that arrives while
\* imap_loop sleeps or is inside a cycle ends the loop.
C34_ShutdownReturns ==
    /\ [](RunEnded => PendingCancelled)
    /\ [][NotSwallowed]_vars
    /\ (\E t \in Tasks : TaskDone(t)) ~> (run_pc = "returned" /\ \A t \in Tasks : TaskDone(t))

\* C34, amended: once either task has terminated, the other one is cancelled and
\* awaited to completion and run() ends: it returns when no completed task raised
\* and re-raises the exception of a completed task otherwise; a cancellation that
\* arrives while imap_loop sleeps or is inside a cycle ends the loop.
C34_ShutdownEnds ==
    /\ [](RunEnded => PendingCancelled)
    /\ [](run_pc = "returned" => \A t \in done : ~TaskRaised(t))
    /\ [](run_pc = "raised" => \E t \in done : TaskRaised(t))
    /\ [][NotSwallowed]_vars
    /\ (\E t \in Tasks : TaskDone(t)) ~> (RunEnded /\ \A t \in Tasks : TaskDone(t))

\* the listener stopped and imap_loop was cancelled between two attempts of a cycle
C34_Witness ==
    /\ run_pc = "returned"
    /\ polling = "finished"
    /\ pc = "cancelled"
    /\ Len(waits) \in 1..(MaxAttempts - 2)

\* the listener stopped and imap_loop was cancelled in its sleep after a failed poll
C34_WitnessSleep ==
    /\ run_pc = "returned"
    /\ polling = "finished"
    /\ pc = "cancelled"
    /\ Len(waits) = MaxAttempts - 1
    /\ loop_log # <<>>
    /\ loop_log[Len(loop_log)] = cycles

(***************************************************************************)
(* Claims about the asset table.                                           *)
(***************************************************************************)
\* the step stores the event of a new message
EventStored == Len(events') = Len(events) + 1

StoredDevice == strip(events'[Len(events')].device)

RiskLevels == {"INFO", "LOW", "MEDIUM", "HIGH", "CRITICAL"}

\* the stored threshold of the recipient chat_id of the device host is min_risk
StoredThreshold(tbl, host, chat_id, min_risk) ==
    \E n \in DOMAIN tbl :
        tbl[n].asset = host /\ tbl[n].chat_id = chat_id /\ tbl[n].min_risk = min_risk

\* C38: for every level L of the ordered risk set, a /bind with requested
\* threshold L stores threshold L.
C38_BindStoresRequested ==
    [][\A h \in Hosts, c \in OwnerChats, r \in RiskLevels :
          bind_owner(h, c, r) => StoredThreshold(asset_recipients', h, c, r)]_vars

(***************************************************************************)
(* Claims about the dedup engine, stated over the dedup log.               *)
(***************************************************************************)
LogIdx == 1..Len(dedupLog)
IsFirst(e) == e.prev = NoRow
Gap(e) == e.at - e.prev.last_seen_utc
SinceAlert(e) == e.at - e.prev.last_alert_at_utc
InWindow(e) == ~IsFirst(e) /\ Gap(e) <= window_seconds

\* C8: for a fingerprint with no dedup record, the call creates a record with
\* count = 1 and first_seen = last_seen = last_alert_at = now and returns
\* (shouldAlert = TRUE, runningCount = 1), for every window and threshold.
C8_FirstSightingAlerts ==
    \A i \in LogIdx :
        LET e == dedupLog[i] IN
        IsFirst(e) =>
            /\ e.send = TRUE
            /\ e.repeats = 1
            /\ e.row.count = 1
            /\ e.row.first_seen_utc = e.at
            /\ e.row.last_seen_utc = e.at
            /\ e.row.last_alert_at_utc = e.at

C8_Witness ==
    /\ repeat_threshold = MaxThreshold
    /\ \E i, j \in LogIdx :
          /\ i < j
          /\ IsFirst(dedupLog[i]) /\ IsFirst(dedupLog[j])
          /\ dedupLog[i].fingerprint # dedupLog[j].fingerprint
          /\ dedupLog[j].at > 0

\* C9: on an existing record a sighting whose gap to the previous sighting is
\* strictly greater than the window always alerts and sets last_alert_at = now,
\* whatever the running count and the threshold; a gap equal to the window
\* starts no new episode (it alerts only as a burst alert would).
C9_IdleGapStartsEpisode ==
    \A i \in LogIdx :
        LET e == dedupLog[i] IN
        ~IsFirst(e) =>
            /\ Gap(e) > window_seconds =>
                  e.send = TRUE /\ e.row.last_alert_at_utc = e.at
            /\ Gap(e) = window_seconds =>
                  (e.send <=> (e.repeats >= repeat_threshold /\ SinceAlert(e) > window_seconds))

C9_Witness ==
    \E i, j \in LogIdx :
        /\ ~IsFirst(dedupLog[i]) /\ Gap(dedupLog[i]) > window_seconds
        /\ dedupLog[i].repeats < repeat_threshold
        /\ dedupLog[i].send = TRUE
        /\ ~IsFirst(dedupLog[j]) /\ Gap(dedupLog[j]) = window_seconds
        /\ dedupLog[j].send = FALSE

\* C10: in a run of sightings each within the window of the previous one, a
\* sighting is suppressed while the running count is below the threshold; from
\* the threshold on a burst alert fires exactly when more than the window has
\* passed since the last alert, so two burst alerts of one fingerprint are
\* more than one window apart.
C10_BurstGatedByWindow ==
    /\ \A i \in LogIdx :
          LET e == dedupLog[i] IN
          InWindow(e) =>
              /\ e.repeats < repeat_threshold => e.send = FALSE
              /\ e.send <=> (e.repeats >= repeat_threshold /\ SinceAlert(e) > window_seconds)
              /\ e.row.last_alert_at_utc = (IF e.send THEN e.at ELSE e.prev.last_alert_at_utc)
    /\ \A i, j \in LogIdx :
          LET a == dedupLog[i]
              b == dedupLog[j]
          IN (i < j /\ a.fingerprint = b.fingerprint /\ a.send /\ InWindow(b) /\ b.send)
                => b.at - a.at > window_seconds

C10_Witness ==
    \E i, j, k \in LogIdx :
        /\ i < j /\ j < k
        /\ dedupLog[i].fingerprint = dedupLog[k].fingerprint
        /\ dedupLog[j].fingerprint = dedupLog[k].fingerprint
        /\ IsFirst(dedupLog[i])
        /\ InWindow(dedupLog[j]) /\ dedupLog[j].send = FALSE
        /\ dedupLog[j].repeats >= repeat_threshold
        /\ InWindow(dedupLog[k]) /\ dedupLog[k].send = TRUE

\* sightings of the fingerprint of entry i up to and including entry i
SightingsUpTo(i) ==
    Cardinality({j \in 1..i : dedupLog[j].fingerprint = dedupLog[i].fingerprint})

\* C11: with non-decreasing timestamps, any two sightings of one fingerprint
\* for which the engine returned shouldAlert = TRUE are more than the window
\* apart, for every threshold including 1.
C11_AlertsMoreThanWindowApart ==
    \A i, j \in LogIdx :
        LET a == dedupLog[i]
            b == dedupLog[j]
        IN (i < j /\ a.fingerprint = b.fingerprint /\ a.send /\ b.send)
              => b.at - a.at > window_seconds

C11_Witness ==
    /\ repeat_threshold = 1
    /\ \E i, j, k \in LogIdx :
          /\ i < j /\ j < k
          /\ dedupLog[i].fingerprint = dedupLog[j].fingerprint
          /\ dedupLog[j].fingerprint = dedupLog[k].fingerprint
          /\ dedupLog[i].send
          /\ InWindow(dedupLog[j]) /\ ~dedupLog[j].send
          /\ InWindow(dedupLog[k]) /\ dedupLog[k].send

\* C12: every call on an existing record sets last_seen = now and increments
\* count by exactly one whether or not an alert is emitted; the returned running
\* count equals the stored count and the number of sightings of that
\* fingerprint so far.
C12_CounterAlwaysAdvances ==
    /\ \A i \in LogIdx :
          LET e == dedupLog[i] IN
          /\ e.row.last_seen_utc = e.at
          /\ e.row.count = e.prev.count + 1
          /\ e.repeats = e.row.count
          /\ e.repeats = SightingsUpTo(i)
    /\ \A f \in DOMAIN dedup :
          dedup[f].count = Cardinality({j \in LogIdx : dedupLog[j].fingerprint = f})

C12_Witness ==
    \E i, j \in LogIdx :
        /\ i < j
        /\ dedupLog[i].fingerprint = dedupLog[j].fingerprint
        /\ ~IsFirst(dedupLog[i]) /\ ~dedupLog[i].send
        /\ dedupLog[j].send
        /\ dedupLog[j].repeats = dedupLog[i].repeats + 1
        /\ dedupLog[j].repeats >= 3

\* C13: a sighting within the window of the previous sighting and with a
\* running count below the threshold is suppressed even when more than the
\* window has elapsed since last_alert_at.
C13_EpisodeBySightingGaps ==
    \A i \in LogIdx :
        LET e == dedupLog[i] IN
        (InWindow(e) /\ e.repeats < repeat_threshold) => ~e.send

C13_Witness ==
    \E i \in LogIdx :
        /\ InWindow(dedupLog[i])
        /\ dedupLog[i].repeats < repeat_threshold
        /\ SinceAlert(dedupLog[i]) > window_seconds
        /\ ~dedupLog[i].send

\* sighting j continues a sustained sequence of its fingerprint with the running
\* count at or above the threshold
Sustained(j) ==
    /\ InWindow(dedupLog[j])
    /\ dedupLog[j].repeats >= repeat_threshold

\* i and j are consecutive alerts of one fingerprint
ConsecutiveAlerts(i, j) ==
    /\ i < j
    /\ dedupLog[i].fingerprint = dedupLog[j].fingerprint
    /\ dedupLog[i].send /\ dedupLog[j].send
    /\ \A k \in LogIdx :
          (i < k /\ k < j /\ dedupLog[k].fingerprint = dedupLog[i].fingerprint)
              => ~dedupLog[k].send

\* C39: in a sustained sequence of sightings of one fingerprint, each within the
\* window of the previous one and with the running count at or above the
\* threshold, the first sighting more than the window after the last alert fires
\* an alert, so consecutive alerts are at most twice the window apart.
C39_NeverSilentTwoWindows ==
    /\ \A j \in LogIdx :
          (Sustained(j) /\ SinceAlert(dedupLog[j]) > window_seconds) => dedupLog[j].send
    /\ \A i, j \in LogIdx :
          (/\ ConsecutiveAlerts(i, j)
           /\ \A k \in LogIdx :
                 (i < k /\ k <= j /\ dedupLog[k].fingerprint = dedupLog[i].fingerprint)
                     => Sustained(k))
              => dedupLog[j].at - dedupLog[i].at <= 2 * window_seconds

\* an alert, a silent sighting within the window of it, and an alert at the next
\* sighting, two windows after the first alert
C39_Witness ==
    \E i, k, j \in LogIdx :
        /\ ConsecutiveAlerts(i, j)
        /\ i < k /\ k < j
        /\ dedupLog[k].fingerprint = dedupLog[i].fingerprint
        /\ Sustained(k) /\ Sustained(j)
        /\ dedupLog[j].at - dedupLog[i].at = 2 * window_seconds

====
